---- MODULE Spec2Model ----
(***************************************************************************)
(* A model of the query core of TileDB: class Query (core/src/query/       *)
(* query.cc) over a one-dimensional array whose fragments live in one      *)
(* array directory.  Fragment, ArrayReadState and the sorted adapters are  *)
(* collaborators of Query; they are modelled by what the design document   *)
(* says of them and are marked as such where they are defined.             *)
(***************************************************************************)
EXTENDS Integers, Sequences, FiniteSets, TLC

(* ------------------------------ bounds --------------------------------- *)
\* The array domain is [1, MaxCoord]; coordinates are numbered in global order.
MaxCoord == 2
\* gettimeofday() never returns more than MaxMs: at most MaxMs fragment names.
MaxMs == 2

\* A write batch holds at most as many cells as the domain has; a read buffer
\* holds at most the whole domain.
MaxBatch == MaxCoord
MaxBuf == MaxCoord

(* ------------------------------ values --------------------------------- *)
\* The Query objects: the one of a client that reads and writes, and the one
\* of a second client that writes at the same time.
QIds == {"q1", "q2"}
Coords == 1..MaxCoord
\* The special value for an empty int32 (INT_MAX): what a dense read returns
\* for a cell no fragment holds.
empty_int32 == 2147483647

READ == "READ"
READ_SORTED_COL == "READ_SORTED_COL"
READ_SORTED_ROW == "READ_SORTED_ROW"
WRITE == "WRITE"
WRITE_SORTED_COL == "WRITE_SORTED_COL"
WRITE_SORTED_ROW == "WRITE_SORTED_ROW"
WRITE_UNSORTED == "WRITE_UNSORTED"
QueryMode ==
  {READ, READ_SORTED_COL, READ_SORTED_ROW,
   WRITE, WRITE_SORTED_COL, WRITE_SORTED_ROW, WRITE_UNSORTED}

INPROGRESS == "INPROGRESS"
COMPLETED == "COMPLETED"
OVERFLOWED == "OVERFLOWED"
FAILED == "FAILED"
QueryStatus == {INPROGRESS, COMPLETED, OVERFLOWED, FAILED}

is_read_mode(mode) == mode \in {READ, READ_SORTED_COL, READ_SORTED_ROW}
is_write_mode(mode) ==
  mode \in {WRITE, WRITE_SORTED_COL, WRITE_SORTED_ROW, WRITE_UNSORTED}

Min(S) == CHOOSE x \in S : \A y \in S : x <= y
Max(S) == CHOOSE x \in S : \A y \in S : x >= y
IsPrefixOf(s, t) == Len(s) <= Len(t) /\ SubSeq(t, 1, Len(s)) = s
Range(s) == {s[k] : k \in 1..Len(s)}


(* ------------------------- the array directory ------------------------- *)
\* A fragment name: <<prefix, ms>>, or <<>> for the empty string.  The array
\* URI, the MAC address and the thread id are the same for every query of the
\* model: the names differ by their timestamp and their prefix only.
HiddenPrefix == ".__"
VisiblePrefix == "__"
EmptyName == <<>>

\* gettimeofday(): the clock has advanced since it was last read.
gettimeofday(clock) == clock + 1

\* A directory of the array folder: its name and the cells it holds, as
\* a sequence of <<coordinate, value>>.
is_dir(dirs, name) == \E d \in dirs : d.name = name
DirCells(dirs, name) == (CHOOSE d \in dirs : d.name = name).cells
RemoveDir(dirs, name) == {d \in dirs : d.name # name}
PutDir(dirs, name, cells) ==
  RemoveDir(dirs, name) \cup {[name |-> name, cells |-> cells]}

\* The fragments a storage manager hands to Query::init: the directories
\* whose name is not hidden, oldest first.
VisibleMs(dirs) == {d.name[2] : d \in {e \in dirs : e.name[1] = VisiblePrefix}}
RECURSIVE Ascending(_)
Ascending(S) ==
  IF S = {} THEN <<>> ELSE <<Min(S)>> \o Ascending(S \ {Min(S)})
VisibleFragments(dirs) ==
  LET ms == Ascending(VisibleMs(dirs))
  IN  [k \in 1..Len(ms) |-> <<VisiblePrefix, ms[k]>>]

(* ------------------------------ Fragment ------------------------------- *)
\* A Fragment object held by a query.
FragmentObj(name, ok) == [name |-> name, inited |-> ok]

\* Stable sort by global order in which the later of two cells with equal
\* coordinates wins.
SortCells(cells) ==
  LET cs == Ascending({cells[k][1] : k \in 1..Len(cells)})
      last(c) == Max({k \in 1..Len(cells) : cells[k][1] = c})
  IN  [j \in 1..Len(cs) |-> cells[last(cs[j])]]

\* Fragment::write.  A successful write appends the batch to the fragment's
\* (hidden) directory, which it creates with the first cell.  A failed write
\* removes the partial files on its error path: the directory is deleted.
FragmentWrite(dirs, frag, batch, ok) ==
  LET old == IF is_dir(dirs, frag.name) THEN DirCells(dirs, frag.name) ELSE <<>>
  IN  IF ~frag.inited THEN dirs
      ELSE IF ok THEN
        IF old \o batch = <<>> THEN dirs ELSE PutDir(dirs, frag.name, old \o batch)
      ELSE RemoveDir(dirs, frag.name)

\* Fragment::finalize.  A fragment opened for reading has nothing to seal.  A
\* written fragment that holds cells is sealed by renaming its directory to the
\* visible name (the unordered mode sorts the staged cells first); a fragment
\* that holds no cell leaves nothing behind.  The rename fails when a
\* directory of the visible name exists: the cells stay in the hidden one.
FragmentFinalize(dirs, frag, mode) ==
  IF /\ frag.name[1] = HiddenPrefix
     /\ is_dir(dirs, frag.name)
     /\ ~is_dir(dirs, <<VisiblePrefix, frag.name[2]>>)
  THEN LET cells == DirCells(dirs, frag.name)
           sealed == IF mode = WRITE_UNSORTED THEN SortCells(cells) ELSE cells
       IN  PutDir(RemoveDir(dirs, frag.name),
                  <<VisiblePrefix, frag.name[2]>>, sealed)
  ELSE dirs

(* ---------------------------- ArrayReadState --------------------------- *)
InSubarray(c, sub) == sub[1] <= c /\ c <= sub[2]

\* The next position >= i of a fragment's cells that lies in the subarray.
NextIn(cells, i, sub) ==
  LET js == {j \in i..Len(cells) : InSubarray(cells[j][1], sub)}
  IN  IF js = {} THEN Len(cells) + 1 ELSE Min(js)

\* In a dense array a cell no fragment holds reads as the empty value: the
\* domain of empties ranks below every fragment.
EmptyFragment == [c \in 1..MaxCoord |-> <<c, empty_int32>>]

\* The cells of the fragments a query has opened, oldest first.
FragmentCells(dirs, fragments, isDense) ==
  LET real == [k \in 1..Len(fragments) |-> DirCells(dirs, fragments[k].name)]
  IN  IF isDense THEN <<EmptyFragment>> \o real ELSE real

\* A cursor of <<>> is the cursor of a state that has not read yet.
NewReadState == [alloc |-> TRUE, cursor |-> <<>>, overflow |-> FALSE]

\* The merge: pop the least coordinate over the fragments' cursors, take it
\* from the latest fragment that holds it, advance every cursor that stands on
\* it, and stop with overflow when the buffer (cap cells) cannot take it.
RECURSIVE MergeCells(_, _, _, _, _)
MergeCells(frs, sub, cur, out, cap) ==
  LET heads == {k \in 1..Len(frs) : cur[k] <= Len(frs[k])}
  IN  IF heads = {} THEN [cursor |-> cur, out |-> out, overflow |-> FALSE]
      ELSE
        LET minc == Min({frs[k][cur[k]][1] : k \in heads})
            at == {k \in heads : frs[k][cur[k]][1] = minc}
            src == Max(at)
            adv == [k \in 1..Len(frs) |->
                      IF k \in at THEN NextIn(frs[k], cur[k] + 1, sub) ELSE cur[k]]
        IN  IF Len(out) >= cap
            THEN [cursor |-> cur, out |-> out, overflow |-> TRUE]
            ELSE MergeCells(frs, sub, adv, Append(out, frs[src][cur[src]]), cap)

\* ArrayReadState::read: resume the merge from the saved cursor (a first read
\* positions every cursor on the fragment's first cell in the subarray).
ArrayReadState_read(state, frs, sub, cap) ==
  LET cur == IF state.cursor = <<>>
             THEN [k \in 1..Len(frs) |-> NextIn(frs[k], 1, sub)]
             ELSE state.cursor
  IN  MergeCells(frs, sub, cur, <<>>, cap)

(* ------------------------- ArraySortedReadState ------------------------ *)
\* The rank of a cell in the requested layout.  The array has one dimension:
\* row-major and column-major order both are the order of the coordinate.
LayoutRank(mode, c) == c

RECURSIVE SortByLayout(_, _)
SortByLayout(cells, mode) ==
  IF cells = {} THEN <<>>
  ELSE LET first == CHOOSE x \in cells :
                      \A y \in cells : LayoutRank(mode, x[1]) <= LayoutRank(mode, y[1])
       IN  <<first>> \o SortByLayout(cells \ {first}, mode)

NewSortedReadState ==
  [alloc |-> TRUE, filled |-> FALSE, staged |-> <<>>, pos |-> 1, overflow |-> FALSE]

\* ArraySortedReadState::read: fill the staging region (it has room for the
\* cells of the subarray)
\* from the global-order read (SortedFill), then drain it in the requested
\* layout from the drain cursor until the user buffer is full (SortedDrain).
SortedDrain(sorted, state, staged, cap) ==
  [sorted |-> [alloc |-> TRUE, filled |-> TRUE, staged |-> staged,
               pos |-> Min({Len(staged) + 1, sorted.pos + cap}),
               overflow |-> sorted.pos + cap <= Len(staged)],
   state |-> state,
   out |-> SubSeq(staged, sorted.pos, Min({Len(staged), sorted.pos + cap - 1}))]

SortedFill(sorted, fill, cap, mode) ==
  SortedDrain(sorted,
              [alloc |-> TRUE, cursor |-> fill.cursor, overflow |-> fill.overflow],
              SortByLayout(Range(fill.out), mode), cap)

ArraySortedReadState_read(sorted, state, frs, sub, cap, mode) ==
  IF sorted.filled
  THEN SortedDrain(sorted, state, sorted.staged, cap)
  ELSE SortedFill(sorted,
                  ArrayReadState_read(state, frs, sub, sub[2] - sub[1] + 1),
                  cap, mode)


(* -------------------------------- Query -------------------------------- *)
Ok == "Ok"
QueryError == "QueryError"
IOError == "IOError"

NullReadState == [alloc |-> FALSE, cursor |-> <<>>, overflow |-> FALSE]
NullSortedReadState ==
  [alloc |-> FALSE, filled |-> FALSE, staged |-> <<>>, pos |-> 1,
   overflow |-> FALSE]

(* The array schema: two attributes, a1 of a fixed size and a2 of a variable
   size, and the coordinates, which come last. *)
name_max_len == 256
Name(chars) == [null |-> FALSE, chars |-> chars]
NullName == [null |-> TRUE, chars |-> <<>>]
a1 == Name(<<"a", "1">>)
a2 == Name(<<"a", "2">>)
constants_coords == Name(<<"_", "_", "c", "o", "o", "r", "d", "s">>)
ArraySchema_attributes == <<a1, a2, constants_coords>>
var_size(attribute_id) == attribute_id = 2
\* An attribute list as a client passes it: a null pointer or names.
NullAttributes == [null |-> TRUE, names |-> <<>>]
Attributes(names) == [null |-> FALSE, names |-> names]
\* ArraySchema::get_attribute_ids: the position in the schema of every name,
\* an error when a name is not an attribute of the schema.
AttributeId(name) ==
  CHOOSE id \in 1..Len(ArraySchema_attributes) : ArraySchema_attributes[id] = name
get_attribute_ids(names) ==
  IF \E i \in 1..Len(names) : names[i] \notin Range(ArraySchema_attributes)
  THEN [st |-> "ArraySchemaError", ids |-> <<>>]
  ELSE [st |-> Ok, ids |-> [i \in 1..Len(names) |-> AttributeId(names[i])]]
has_duplicates(names) ==
  \E i, j \in 1..Len(names) : i # j /\ names[i] = names[j]

\* Query::Query(): every pointer is null, no fragment is held.  `buffers` is
\* what the last submission left in the user's buffers, `buffer_sizes_` the
\* sizes in the user's array of sizes (<<>> when the client's sizes are not
\* followed).
Query_new ==
  [inited |-> FALSE,
   mode_ |-> "",
   status_ |-> "",
   subarray_ |-> <<>>,
   fragment_metadata_ |-> <<>>,
   fragments_ |-> <<>>,
   array_read_state_ |-> NullReadState,
   array_sorted_read_state_ |-> NullSortedReadState,
   array_sorted_write_state_ |-> FALSE,
   attribute_ids_ |-> <<>>,
   buffer_sizes_ |-> <<>>,
   buffers |-> <<>>]

\* The operations of a query act on a world: the query `q`, the directories
\* `dirs` of the array, the `clock`, and the status `st` they return.
World(q, dirs, clock) == [q |-> q, dirs |-> dirs, clock |-> clock, st |-> Ok]

\* A name without the leading dot: the directory is listed from the start.
new_fragment_name_visible(clock, mac) ==
  IF mac = "" THEN EmptyName ELSE <<VisiblePrefix, gettimeofday(clock)>>

\* Query::new_fragment_name: "<uri>/.__<mac><tid>_<ms>", or "" without a MAC.
new_fragment_name(clock, mac) ==
  IF mac = "" THEN EmptyName ELSE <<HiddenPrefix, gettimeofday(clock)>>

\* Query::clear_fragments: finalize and delete every fragment, oldest first.
RECURSIVE FinalizeAll(_, _, _)
FinalizeAll(dirs, fragments, mode) ==
  IF fragments = <<>> THEN dirs
  ELSE FinalizeAll(FragmentFinalize(dirs, Head(fragments), mode),
                   Tail(fragments), mode)

\* Deleting the fragments without finalizing them.
clear_fragments_no_finalize(w) ==
  [w EXCEPT !.q.fragments_ = <<>>]

clear_fragments(w) ==
  [w EXCEPT !.dirs = FinalizeAll(w.dirs, w.q.fragments_, w.q.mode_),
            !.q.fragments_ = <<>>]

\* A new fragment whose directory is created with the fragment object.
new_fragment_eager(w, in) ==
  LET name == new_fragment_name(w.clock, in.mac)
      w1 == [w EXCEPT !.clock = gettimeofday(@)]
  IN  IF name = EmptyName THEN [w1 EXCEPT !.st = QueryError]
      ELSE IF ~in.fragOk THEN [w1 EXCEPT !.st = IOError]
      ELSE [w1 EXCEPT !.q.fragments_ = Append(@, FragmentObj(name, TRUE)),
                      !.dirs = PutDir(@, name, <<>>)]

\* Query::new_fragment: the fragment is kept only when its init succeeds
\* (new_fragment_named: the function from the name on).
new_fragment_named(w, name, in) ==
  IF name = EmptyName THEN [w EXCEPT !.st = QueryError]
  ELSE IF ~in.fragOk THEN [w EXCEPT !.st = IOError]
  ELSE [w EXCEPT !.q.fragments_ = Append(@, FragmentObj(name, TRUE))]

new_fragment(w, in) ==
  new_fragment_named([w EXCEPT !.clock = gettimeofday(@)],
                     new_fragment_name(w.clock, in.mac), in)

\* Opening the fragments newest first: every fragment goes to the front.
RECURSIVE open_fragments_front(_, _, _)
open_fragments_front(w, metadata, failAt) ==
  IF metadata = <<>> THEN w
  ELSE IF failAt = 1 THEN [w EXCEPT !.st = IOError]
  ELSE open_fragments_front(
         [w EXCEPT !.q.fragments_ = <<FragmentObj(Head(metadata), TRUE)>> \o @],
         Tail(metadata),
         IF failAt = 0 THEN 0 ELSE failAt - 1)

\* Query::open_fragments: one fragment per metadata entry, in order; the
\* init of entry `failAt` fails (0: none does).
RECURSIVE open_fragments(_, _, _)
open_fragments(w, metadata, failAt) ==
  IF metadata = <<>> THEN w
  ELSE IF failAt = 1 THEN [w EXCEPT !.st = IOError]
  ELSE open_fragments(
         [w EXCEPT !.q.fragments_ = Append(@, FragmentObj(Head(metadata), TRUE))],
         Tail(metadata),
         IF failAt = 0 THEN 0 ELSE failAt - 1)

\* Query::init_fragments
init_fragments(w, fragment_metadata, in) ==
  IF w.q.mode_ = WRITE THEN new_fragment(w, in)
  ELSE IF is_read_mode(w.q.mode_)
  THEN open_fragments(w, fragment_metadata, in.failAt)
  ELSE w

\* Query::init_states: the state objects of the mode; the init of a sorted
\* state may fail, and the state is then deleted.
init_states(w, in) ==
  IF w.q.mode_ \in {WRITE_SORTED_COL, WRITE_SORTED_ROW}
  THEN IF in.stateOk THEN [w EXCEPT !.q.array_sorted_write_state_ = TRUE]
       ELSE [w EXCEPT !.st = IOError]
  ELSE IF w.q.mode_ = READ
  THEN [w EXCEPT !.q.array_read_state_ = NewReadState]
  ELSE IF w.q.mode_ \in {READ_SORTED_COL, READ_SORTED_ROW}
  THEN LET w1 == [w EXCEPT !.q.array_read_state_ = NewReadState]
       IN  IF in.stateOk
           THEN [w1 EXCEPT !.q.array_sorted_read_state_ = NewSortedReadState]
           ELSE [w1 EXCEPT !.st = IOError]
  ELSE w

\* Query::set_subarray: a null subarray is the whole domain.
set_subarray(w, subarray) ==
  [w EXCEPT !.q.subarray_ = IF subarray = <<>> THEN <<1, MaxCoord>> ELSE subarray]

\* set_attributes without the check for duplicates.
set_attributes_with_duplicates(w, attributes, isDense) ==
  IF attributes.null
  THEN [w EXCEPT !.q.attribute_ids_ =
          IF isDense /\ w.q.mode_ # WRITE_UNSORTED
          THEN get_attribute_ids(SubSeq(ArraySchema_attributes, 1,
                                        Len(ArraySchema_attributes) - 1)).ids
          ELSE get_attribute_ids(ArraySchema_attributes).ids]
  ELSE IF \E i \in 1..Len(attributes.names) :
            \/ attributes.names[i].null
            \/ Len(attributes.names[i].chars) > name_max_len
  THEN [w EXCEPT !.st = QueryError]
  ELSE [w EXCEPT !.st = get_attribute_ids(attributes.names).st,
                 !.q.attribute_ids_ = get_attribute_ids(attributes.names).ids]

\* Query::set_attributes: a null list selects every attribute of the schema
\* (without the coordinates in a dense array, unless the mode is
\* WRITE_UNSORTED); the names of a list are checked (null, length,
\* duplicates) and looked up in the schema.
set_attributes(w, attributes, isDense) ==
  IF attributes.null
  THEN [w EXCEPT !.q.attribute_ids_ =
          IF isDense /\ w.q.mode_ # WRITE_UNSORTED
          THEN get_attribute_ids(SubSeq(ArraySchema_attributes, 1,
                                        Len(ArraySchema_attributes) - 1)).ids
          ELSE get_attribute_ids(ArraySchema_attributes).ids]
  ELSE IF \E i \in 1..Len(attributes.names) :
            \/ attributes.names[i].null
            \/ Len(attributes.names[i].chars) > name_max_len
  THEN [w EXCEPT !.st = QueryError]
  ELSE IF has_duplicates(attributes.names)
  THEN [w EXCEPT !.st = QueryError]
  ELSE [w EXCEPT !.st = get_attribute_ids(attributes.names).st,
                 !.q.attribute_ids_ = get_attribute_ids(attributes.names).ids]

\* Query::init: the fields (init_fields), then the attributes, the subarray,
\* the fragments and the states, RETURN_NOT_OK after each: a step that fails
\* ends the function with its status.  A query whose init returned Ok is
\* `inited`.
init_fields(w, fragment_metadata, mode) ==
  [w EXCEPT !.q.mode_ = mode,
            !.q.status_ = INPROGRESS,
            !.q.fragment_metadata_ = fragment_metadata]

init_after_states(w) ==
  IF w.st # Ok THEN w ELSE [w EXCEPT !.q.inited = TRUE]

init_after_fragments(w, in) ==
  IF w.st # Ok THEN w ELSE init_after_states(init_states(w, in))

init_after_subarray(w, fragment_metadata, in) ==
  IF w.st # Ok THEN w
  ELSE init_after_fragments(init_fragments(w, fragment_metadata, in), in)

init_after_attributes(w, fragment_metadata, subarray, in) ==
  IF w.st # Ok THEN w
  ELSE init_after_subarray(set_subarray(w, subarray), fragment_metadata, in)

init(w, fragment_metadata, mode, subarray, attributes, isDense, in) ==
  init_after_attributes(
    set_attributes(init_fields(w, fragment_metadata, mode), attributes, isDense),
    fragment_metadata, subarray, in)


\* A write that creates a new fragment at every submission, whether the query
\* holds one or not.
write_default_always_new(w, batch, in) ==
  IF ~is_write_mode(w.q.mode_) THEN [w EXCEPT !.st = QueryError]
  ELSE
    LET name == new_fragment_name(w.clock, in.mac)
        w1 == [w EXCEPT !.clock = gettimeofday(@)]
        w2 == IF name # EmptyName
              THEN [w1 EXCEPT !.q.fragments_ =
                                Append(@, FragmentObj(name, in.fragOk))]
              ELSE w1
    IN  IF name = EmptyName THEN [w1 EXCEPT !.st = QueryError]
        ELSE IF ~in.fragOk THEN [w2 EXCEPT !.st = IOError]
        ELSE LET frag == w2.q.fragments_[1]
                 ok == in.writeOk /\ frag.inited
             IN  [w2 EXCEPT !.dirs = FragmentWrite(@, frag, batch, ok),
                            !.st = IF ok THEN Ok ELSE IOError]

\* Query::write_default: create and initialize a new fragment when the query
\* holds none (write_default_fragment: the fragment is pushed before its
\* init), then, unless that failed, write to fragments_[0]
\* (write_default_cells).
write_default_fragment(w, name, in) ==
  IF name = EmptyName THEN [w EXCEPT !.st = QueryError]
  ELSE [w EXCEPT !.q.fragments_ = Append(@, FragmentObj(name, in.fragOk)),
                 !.st = IF in.fragOk THEN Ok ELSE IOError]

write_default_cells(w, batch, in) ==
  IF w.st # Ok THEN w
  ELSE [w EXCEPT !.dirs = FragmentWrite(@, w.q.fragments_[1], batch,
                                        in.writeOk /\ w.q.fragments_[1].inited),
                 !.st = IF in.writeOk /\ w.q.fragments_[1].inited
                        THEN Ok ELSE IOError]

write_default(w, batch, in) ==
  IF ~is_write_mode(w.q.mode_) THEN [w EXCEPT !.st = QueryError]
  ELSE write_default_cells(
         IF Len(w.q.fragments_) = 0
         THEN write_default_fragment([w EXCEPT !.clock = gettimeofday(@)],
                                     new_fragment_name(w.clock, in.mac), in)
         ELSE w,
         batch, in)

\* ArraySortedWriteState::write: reorder the cells of the batch from the
\* layout of the mode into global order and hand them to the fragment.
ArraySortedWriteState_write(w, batch, in) ==
  write_default(w, SortCells(batch), in)

\* Query::write: in every mode but WRITE a successful submission finalizes
\* the fragment (write_finalize); a failed one returns before.
write_finalize_every_mode(w) ==
  IF w.st # Ok THEN w ELSE clear_fragments(w)

write_finalize(w) ==
  IF w.st # Ok THEN w
  ELSE IF w.q.mode_ # WRITE THEN clear_fragments(w)
  ELSE w

write(w, batch, in) ==
  write_finalize(IF w.q.mode_ \in {WRITE_SORTED_COL, WRITE_SORTED_ROW}
                 THEN ArraySortedWriteState_write(w, batch, in)
                 ELSE write_default(w, batch, in))

\* The loop of Query::read over the selected attributes when the query holds
\* no fragment: the size at buffer_i is set to 0, and buffer_i moves on by one
\* for an attribute of a fixed size and by two for one of a variable size.
RECURSIVE zero_sizes(_, _, _)
zero_sizes(buffer_sizes, attribute_ids, buffer_i) ==
  IF attribute_ids = <<>> THEN buffer_sizes
  ELSE zero_sizes(IF buffer_i \in DOMAIN buffer_sizes
                  THEN [buffer_sizes EXCEPT ![buffer_i] = 0]
                  ELSE buffer_sizes,
                  Tail(attribute_ids),
                  IF var_size(Head(attribute_ids))
                  THEN buffer_i + 2 ELSE buffer_i + 1)

\* A read that starts over: the read states are rebuilt at every submission.
read_restart(w, isDense, cap, in) ==
  IF w.q.fragments_ = <<>>
  THEN [w EXCEPT !.q.buffers = <<>>,
                 !.q.buffer_sizes_ = zero_sizes(@, w.q.attribute_ids_, 1)]
  ELSE IF ~in.readOk THEN [w EXCEPT !.st = IOError, !.q.buffers = <<>>]
  ELSE
    LET frs == FragmentCells(w.dirs, w.q.fragments_, isDense)
    IN  IF w.q.mode_ \in {READ_SORTED_COL, READ_SORTED_ROW}
        THEN LET r == ArraySortedReadState_read(
                        NewSortedReadState, NewReadState,
                        frs, w.q.subarray_, cap, w.q.mode_)
             IN  [w EXCEPT !.q.array_sorted_read_state_ = r.sorted,
                           !.q.array_read_state_ = r.state,
                           !.q.buffers = r.out]
        ELSE LET r == ArrayReadState_read(
                        NewReadState, frs, w.q.subarray_, cap)
             IN  [w EXCEPT !.q.array_read_state_ =
                             [alloc |-> TRUE, cursor |-> r.cursor,
                              overflow |-> r.overflow],
                           !.q.buffers = r.out]

\* A read that opens the fragments that are visible at the submission in place
\* of the fragments opened at init.
read_reopen(w, isDense, cap, in) ==
  LET live == VisibleFragments(w.dirs)
      opened == [k \in 1..Len(live) |-> FragmentObj(live[k], TRUE)]
      w0 == [w EXCEPT !.q.fragments_ = opened]
  IN
  IF w0.q.fragments_ = <<>> THEN [w0 EXCEPT !.q.buffers = <<>>]
  ELSE IF ~in.readOk THEN [w0 EXCEPT !.st = IOError, !.q.buffers = <<>>]
  ELSE
    LET frs == FragmentCells(w0.dirs, w0.q.fragments_, isDense)
    IN  IF w0.q.mode_ \in {READ_SORTED_COL, READ_SORTED_ROW}
        THEN LET r == ArraySortedReadState_read(
                        w0.q.array_sorted_read_state_, w0.q.array_read_state_,
                        frs, w0.q.subarray_, cap, w0.q.mode_)
             IN  [w0 EXCEPT !.q.array_sorted_read_state_ = r.sorted,
                            !.q.array_read_state_ = r.state,
                            !.q.buffers = r.out]
        ELSE LET r == ArrayReadState_read(
                        w0.q.array_read_state_, frs, w0.q.subarray_, cap)
             IN  [w0 EXCEPT !.q.array_read_state_ =
                              [alloc |-> TRUE, cursor |-> r.cursor,
                               overflow |-> r.overflow],
                            !.q.buffers = r.out]

\* Query::read: nothing is read without fragments; `cap` is the number of
\* cells the user's buffer holds.  A failing read (an I/O error) delivers
\* nothing.  read_sorted and read_global are what the read of the sorted and
\* of the plain read state leave in the state objects and the buffers.
read_sorted(w, r) ==
  [w EXCEPT !.q.array_sorted_read_state_ = r.sorted,
            !.q.array_read_state_ = r.state,
            !.q.buffers = r.out]

read_global(w, r) ==
  [w EXCEPT !.q.array_read_state_ =
              [alloc |-> TRUE, cursor |-> r.cursor, overflow |-> r.overflow],
            !.q.buffers = r.out]

read(w, isDense, cap, in) ==
  IF w.q.fragments_ = <<>>
  THEN [w EXCEPT !.q.buffers = <<>>,
                 !.q.buffer_sizes_ = zero_sizes(@, w.q.attribute_ids_, 1)]
  ELSE IF ~in.readOk THEN [w EXCEPT !.st = IOError, !.q.buffers = <<>>]
  ELSE IF w.q.mode_ \in {READ_SORTED_COL, READ_SORTED_ROW}
  THEN read_sorted(w, ArraySortedReadState_read(
                        w.q.array_sorted_read_state_, w.q.array_read_state_,
                        FragmentCells(w.dirs, w.q.fragments_, isDense),
                        w.q.subarray_, cap, w.q.mode_))
  ELSE read_global(w, ArrayReadState_read(
                        w.q.array_read_state_,
                        FragmentCells(w.dirs, w.q.fragments_, isDense),
                        w.q.subarray_, cap))

\* Query::overflow: the overflow of the read state of the mode.
Query_overflow(q) ==
  IF ~is_read_mode(q.mode_) THEN FALSE
  ELSE IF q.array_sorted_read_state_.alloc
  THEN q.array_sorted_read_state_.overflow
  ELSE q.array_read_state_.overflow

\* A submission that looks at the overflow of the plain read state only.
async_process_plain_overflow(w, isDense, batch, cap, in) ==
  LET w1 == IF is_read_mode(w.q.mode_)
            THEN read(w, isDense, cap, in)
            ELSE write(w, batch, in)
      q == w1.q
  IN  IF w1.st = Ok
      THEN IF is_read_mode(q.mode_) /\ q.array_read_state_.overflow
           THEN [w1 EXCEPT !.q.status_ = OVERFLOWED]
           ELSE [w1 EXCEPT !.q.status_ = COMPLETED]
      ELSE [w1 EXCEPT !.q.status_ = FAILED]

\* The status with OVERFLOWED as the outcome of every success that is not a
\* read without overflow.
async_process_status_overflow_default(w) ==
  IF w.st = Ok
  THEN IF \/ w.q.mode_ = READ /\ ~w.q.array_read_state_.overflow
          \/ /\ w.q.mode_ \in {READ_SORTED_COL, READ_SORTED_ROW}
             /\ ~w.q.array_sorted_read_state_.overflow
       THEN [w EXCEPT !.q.status_ = COMPLETED]
       ELSE [w EXCEPT !.q.status_ = OVERFLOWED]
  ELSE [w EXCEPT !.q.status_ = FAILED]

\* Query::async_process: one submission.  The status (async_process_status)
\* is OVERFLOWED when the read state of the mode reports overflow, COMPLETED
\* on any other success, FAILED on error.
async_process_status(w) ==
  IF w.st = Ok
  THEN IF \/ w.q.mode_ = READ /\ w.q.array_read_state_.overflow
          \/ /\ w.q.mode_ \in {READ_SORTED_COL, READ_SORTED_ROW}
             /\ w.q.array_sorted_read_state_.overflow
       THEN [w EXCEPT !.q.status_ = OVERFLOWED]
       ELSE [w EXCEPT !.q.status_ = COMPLETED]
  ELSE [w EXCEPT !.q.status_ = FAILED]

async_process(w, isDense, batch, cap, in) ==
  async_process_status(IF is_read_mode(w.q.mode_)
                       THEN read(w, isDense, cap, in)
                       ELSE write(w, batch, in))

\* Query::~Query: the states are deleted and the fragments cleared.
Query_delete(w) == clear_fragments(w)


(* ------------------------------ the system ----------------------------- *)
VARIABLES
  queries,    \* the Query object of every slot
  dirs,       \* the directories of the array folder
  clock,      \* the last value gettimeofday returned, in ms
  dense,      \* the array schema: dense or sparse
  submitted,  \* history: per fragment timestamp, the cells clients wrote to it
  hist,       \* history: what the client of every query has seen of it
  wall,       \* the wall clock of the hosts, in ms
  created,    \* the fragment names the threads obtained, one after the other
  trace,      \* history: per submission, the buffer size given and used
  writes,     \* history: the batches an unordered writer submitted, in order
  kvKeys,     \* the Keys object of the key-value client
  kvAdded,    \* history: the keys the client added to kvKeys, in order
  kvq,        \* the KVQuery object of the client
  kvCells,    \* the cells of the key-value array
  kvPut,      \* history: the (key, value) pairs of the bulk put
  kvLast,     \* history: the key and the result of the last get
  lastInit,   \* history: the arguments and the status of the last Query::init
  kvMeta,     \* the key-value metadata object and the last add-attribute call
  cancel,     \* per query: a submission is running, its cancellation was asked
  fs,         \* the HDFS name space: per path its kind and the bytes of a file
  lastOp,     \* history: the last call of the hdfs backend and its status
  kvb,        \* the buffers of a KVQuery and of its caller
  lastCoords, \* history: the last call of coords_buffer_i and what it returned
  rd,         \* the call of hdfs read_from_file that is running, or the last one
  cb,         \* callback_ of the query of q1 and what the callback saw in the last submission
  kvLife,     \* the inits of the KVQuery so far and what its destructor freed
  keysLast    \* history: the status of the last add_key and the Keys object before it
coreVars == <<queries, dirs, clock, dense, submitted, hist>>
namesVars == <<wall, created>>
hdfsVars == <<fs, lastOp>>
\* The variables the query core leaves alone, and those each of the other
\* parts of the model leaves alone.
kvVars == <<kvKeys, kvAdded, kvq, kvCells, kvPut, kvLast>>
layerVars == <<namesVars, trace, writes, kvVars, lastInit, kvMeta, cancel, hdfsVars, kvb, lastCoords, rd, cb, kvLife, keysLast>>
exceptNames == <<coreVars, trace, writes, kvVars, lastInit, kvMeta, cancel, hdfsVars, kvb, lastCoords, rd, cb, kvLife, keysLast>>
exceptTrace == <<namesVars, writes, kvVars, lastInit, kvMeta, cancel, hdfsVars, kvb, lastCoords, rd, cb, kvLife, keysLast>>
exceptWrites == <<namesVars, trace, kvVars, lastInit, kvMeta, cancel, hdfsVars, kvb, lastCoords, rd, cb, kvLife, keysLast>>
exceptKV == <<coreVars, namesVars, trace, writes, lastInit, kvMeta, cancel, hdfsVars, kvb, lastCoords, rd, cb, kvLife, keysLast>>
exceptLastInit == <<namesVars, trace, writes, kvVars, kvMeta, cancel, hdfsVars, kvb, lastCoords, rd, cb, kvLife, keysLast>>
exceptKVMeta == <<coreVars, namesVars, trace, writes, kvVars, lastInit, cancel, hdfsVars, kvb, lastCoords, rd, cb, kvLife, keysLast>>
exceptHdfs == <<coreVars, namesVars, trace, writes, kvVars, lastInit, kvMeta, cancel, kvb, lastCoords, rd, cb, kvLife, keysLast>>
exceptKVB == <<coreVars, namesVars, trace, writes, kvVars, lastInit, kvMeta, cancel, hdfsVars, lastCoords, rd, cb, kvLife, keysLast>>
exceptCancel == <<namesVars, trace, writes, kvVars, lastInit, kvMeta, hdfsVars, kvb, lastCoords, rd, cb, kvLife, keysLast>>
exceptLastCoords == <<namesVars, trace, writes, kvVars, kvMeta, cancel, hdfsVars, kvb, rd, cb, kvLife, keysLast>>
exceptRead == <<coreVars, namesVars, trace, writes, kvVars, lastInit, kvMeta, cancel, hdfsVars, kvb, lastCoords, cb, kvLife, keysLast>>
exceptCallback == <<namesVars, trace, writes, kvVars, lastInit, kvMeta, cancel, hdfsVars, kvb, lastCoords, rd, kvLife, keysLast>>
exceptKVLife == <<coreVars, namesVars, trace, writes, kvq, kvCells, kvPut, kvLast, lastInit, kvMeta, cancel, hdfsVars, lastCoords, rd, cb, keysLast>>
exceptKeysLast == <<coreVars, namesVars, trace, writes, kvq, kvCells, kvPut, kvLast, lastInit, kvMeta, cancel, hdfsVars, kvb, lastCoords, rd, cb, kvLife>>
vars == <<coreVars, layerVars>>
\* Before anything has run.
LayersInit ==
  /\ wall = 0
  /\ created = <<>>
  /\ trace = <<>>
  /\ writes = <<>>
  /\ kvKeys = [keys_ |-> <<>>, keys_var_ |-> <<>>, types_ |-> <<>>, key_num_ |-> 0]
  /\ kvAdded = <<>>
  /\ kvq = [type_ |-> "", st |-> "", submitted |-> FALSE,
            query_ |-> [alloc |-> FALSE, subarray |-> <<>>, cells |-> <<>>]]
  /\ kvCells = {}
  /\ kvPut = <<>>
  /\ kvLast = [got |-> FALSE, key |-> [type |-> 0, bytes |-> <<>>], values |-> {}]
  /\ lastInit = [attributes |-> [null |-> TRUE, names |-> <<>>],
                 subarray |-> <<>>, st |-> ""]
  /\ kvMeta = [alloc |-> FALSE, attributes_ |-> <<>>,
               last |-> [called |-> FALSE, name |-> "", st |-> "", before |-> <<>>]]
  /\ cancel = [i \in QIds |-> [running |-> FALSE, flag |-> FALSE]]
  /\ fs = [p \in {<<"a">>, <<"a", "b">>, <<"c">>, <<"c", "b">>} |->
             [kind |-> "", data |-> <<>>]]
  /\ lastOp = [op |-> "", path |-> <<>>, st |-> "", buffer |-> <<>>]
  /\ kvb = [type_ |-> "", st |-> "", attributes |-> [null |-> TRUE, names |-> <<>>],
            names |-> <<>>, attribute_ids |-> <<>>, buffers_ |-> <<>>,
            buffer_sizes_ |-> <<>>, user_buffer_sizes_ |-> <<>>,
            user_buffer_sizes_num_ |-> 0, layout |-> "", phase |-> ""]
  /\ lastCoords = [called |-> FALSE, before |-> 0, attribute_ids |-> <<>>, st |-> "", coords_buffer_i |-> 0]
  /\ rd = [pc |-> "idle", path |-> <<>>, offset |-> 0, length |-> 0, bytes_to_read |-> 0, pos |-> 0, buffer |-> <<>>, readFailAt |-> 0, round |-> 0, st |-> ""]
  /\ cb = [callback_ |-> FALSE, ran |-> FALSE, had |-> FALSE, st |-> "",
           seen |-> <<>>]
  /\ kvLife = [inits |-> 0, destroyed |-> FALSE, freed |-> {}, buffers_ |-> <<>>]
  /\ keysLast = [called |-> FALSE, st |-> "", before |-> [keys_ |-> <<>>, keys_var_ |-> <<>>, types_ |-> <<>>, key_num_ |-> 0]]

NoCells == [c \in Coords |-> 0]
\* The history of a query: the metadata list passed to init, the status its
\* last submission returned, the cells its read submissions delivered one
\* after the other, whether every submission succeeded, whether a read
\* submission came after the commit of a fragment that is not in the list, how
\* many fragments its submissions made visible and whether it was given a
\* cell to write.
Hist_new ==
  [passed |-> <<>>, ret |-> "", delivered |-> <<>>, clean |-> TRUE,
   late |-> FALSE, produced |-> 0, gotCells |-> FALSE]

Init ==
  /\ queries = [i \in QIds |-> Query_new]
  /\ dirs = {}
  /\ clock = 0
  /\ dense \in BOOLEAN
  /\ submitted = [ms \in 1..MaxMs |-> NoCells]
  /\ hist = [i \in QIds |-> Hist_new]
  /\ LayersInit

Subarrays == {s \in Coords \X Coords : s[1] <= s[2]}
\* The program never looks at an attribute value.  Every cell a client writes
\* to the fragment with timestamp ms carries the value ms, so that a cell read
\* back tells which fragment it was read from.
AllBatches(v) == UNION {[1..n -> Coords \X {v}] : n \in 0..MaxBatch}
Increasing(b) == \A k \in 1..(Len(b) - 1) : b[k][1] < b[k + 1][1]
Distinct(b) == \A j, k \in 1..Len(b) : j # k => b[j][1] # b[k][1]

\* The batches a client may submit: cells in any order in the unordered mode
\* (the cells of one batch carry the same value: a coordinate twice in a batch
\* is the same cell twice), cells in the order of the layout in a sorted mode,
\* and in WRITE mode cells in global order that continue the cells the
\* fragment already holds.
Batches(q, ds, v) ==
  IF q.mode_ = WRITE_UNSORTED THEN {b \in AllBatches(v) : Distinct(b)}
  ELSE IF q.mode_ # WRITE THEN {b \in AllBatches(v) : Increasing(b)}
  ELSE LET name == q.fragments_[1].name
           old == IF is_dir(ds, name) THEN DirCells(ds, name) ELSE <<>>
       IN  {b \in AllBatches(v) : Increasing(old \o b)}

\* What the environment decides in Query::init: the MAC address (empty when
\* it cannot be read), whether the init of the new fragment succeeds, which
\* opened fragment's init fails (0: none) and whether the init of the sorted
\* state succeeds.  Without `faults` nothing fails.
InitInputs(mode, n, faults) ==
  {in \in [mac : IF faults /\ mode = WRITE THEN {"", "mac"} ELSE {"mac"},
           fragOk : IF faults /\ mode = WRITE THEN BOOLEAN ELSE {TRUE},
           failAt : IF faults /\ is_read_mode(mode) THEN 0..n ELSE {0},
           stateOk : IF faults /\ mode \notin {READ, WRITE, WRITE_UNSORTED}
                     THEN BOOLEAN ELSE {TRUE}] :
     \* a step that is not reached does not fail
     /\ in.mac = "" => in.fragOk
     /\ in.failAt # 0 => in.stateOk}

\* What the environment decides in a submission: the MAC address and the
\* init of a new fragment, and whether the fragment's write or the read
\* succeeds.
SubmitInputs(q, faults) ==
  LET fresh == is_write_mode(q.mode_) /\ q.fragments_ = <<>>
  IN  {in \in [mac : IF faults /\ fresh THEN {"", "mac"} ELSE {"mac"},
               fragOk : IF faults /\ fresh THEN BOOLEAN ELSE {TRUE},
               writeOk : IF faults /\ is_write_mode(q.mode_)
                         THEN BOOLEAN ELSE {TRUE},
               readOk : IF faults /\ is_read_mode(q.mode_)
                        THEN BOOLEAN ELSE {TRUE}] :
         \* a step that is not reached does not fail
         /\ in.mac = "" => in.fragOk
         /\ ~in.fragOk \/ in.mac = "" => in.writeOk}

\* The cells of `batch` laid over `old`, the later cell of a coordinate winning.
Overlay(old, batch) ==
  [c \in Coords |->
     LET ks == {k \in 1..Len(batch) : batch[k][1] = c}
     IN  IF ks = {} THEN old[c] ELSE batch[Max(ks)][2]]

\* A client creates a query: Query::init on a fresh Query object, with the
\* fragments that are visible now.  A read takes a subarray, a write the
\* whole domain (a null subarray).
QueryInitedCore(i, passed, w) ==
  /\ queries' = [queries EXCEPT ![i] = w.q]
  /\ dirs' = w.dirs
  /\ clock' = w.clock
  /\ hist' = [hist EXCEPT ![i] = [Hist_new EXCEPT !.passed = passed]]
  /\ UNCHANGED <<dense, submitted>>

QueryInited(i, passed, w) ==
  /\ QueryInitedCore(i, passed, w)
  /\ UNCHANGED layerVars

QueryInit(i, modes, subarrays, faults) ==
  /\ queries[i].mode_ = ""
  /\ \E mode \in modes :
     \E subarray \in (IF is_read_mode(mode) THEN subarrays ELSE {<<>>}) :
     \E in \in InitInputs(mode, Len(VisibleFragments(dirs)), faults) :
       /\ mode = WRITE => clock < MaxMs
       /\ QueryInited(i, VisibleFragments(dirs),
                      init(World(queries[i], dirs, clock),
                           VisibleFragments(dirs), mode, subarray,
                           NullAttributes, dense, in))

\* A client submits a query: Query::async_process with the user's buffers, a
\* batch of cells to write or room for `cap` cells to read.
Target(q, now) ==
  IF q.fragments_ = <<>> THEN gettimeofday(now) ELSE q.fragments_[1].name[2]

SubmittedCore(i, q, batch, target, late, w) ==
  /\ queries' = [queries EXCEPT ![i] = w.q]
  /\ dirs' = w.dirs
  /\ clock' = w.clock
  /\ submitted' = IF is_write_mode(q.mode_) /\ w.st = Ok
                  THEN [submitted EXCEPT ![target] = Overlay(@, batch)]
                  ELSE IF is_write_mode(q.mode_) /\ target \in 1..MaxMs
                  THEN [submitted EXCEPT ![target] = NoCells]
                  ELSE submitted
  /\ hist' = [hist EXCEPT
       ![i].ret = w.st,
       ![i].delivered = IF is_read_mode(q.mode_) /\ w.st = Ok
                        THEN @ \o w.q.buffers ELSE @,
       ![i].clean = @ /\ w.st = Ok,
       ![i].late = @ \/ late,
       ![i].produced = @ + Cardinality(VisibleMs(w.dirs) \ VisibleMs(dirs)),
       ![i].gotCells = @ \/ batch # <<>>]
  /\ UNCHANGED dense

Submitted(i, q, batch, target, late, w) ==
  /\ SubmittedCore(i, q, batch, target, late, w)
  /\ UNCHANGED layerVars

Submit(i, caps, faults) ==
  /\ queries[i].inited
  /\ is_write_mode(queries[i].mode_) /\ queries[i].fragments_ = <<>>
       => clock < MaxMs
  /\ \E batch \in (IF is_write_mode(queries[i].mode_)
                   THEN Batches(queries[i], dirs, Target(queries[i], clock))
                   ELSE {<<>>}) :
     \E cap \in (IF is_read_mode(queries[i].mode_) THEN caps ELSE {0}) :
     \E in \in SubmitInputs(queries[i], faults) :
       Submitted(i, queries[i], batch, Target(queries[i], clock),
                 is_read_mode(queries[i].mode_) /\
                   VisibleFragments(dirs) # hist[i].passed,
                 async_process(World(queries[i], dirs, clock),
                               dense, batch, cap, in))

\* A client frees a query: Query::~Query; the slot takes a fresh Query object.
DestroyedCore(i, w) ==
  /\ queries' = [queries EXCEPT ![i] = Query_new]
  /\ dirs' = w.dirs
  /\ clock' = w.clock
  /\ hist' = [hist EXCEPT ![i] = Hist_new]
  /\ UNCHANGED <<dense, submitted>>

Destroyed(i, w) ==
  /\ DestroyedCore(i, w)
  /\ UNCHANGED layerVars

Destroy(i) ==
  /\ queries[i].mode_ # ""
  /\ Destroyed(i, Query_delete(World(queries[i], dirs, clock)))

\* One client: it creates, submits and frees one query after the other, in
\* any mode, with any subarray and buffer size, and any step may fail.
Next ==
  \/ QueryInit("q1", QueryMode, Subarrays, TRUE)
  \/ Submit("q1", 0..MaxBuf, TRUE)
  \/ Destroy("q1")

Spec == Init /\ [][Next]_vars

\* A reader and a writer side by side: the first client reads the whole
\* domain while the second one writes, in global order or unordered; nothing
\* fails.
NextConc ==
  \/ QueryInit("q1", {READ, READ_SORTED_COL, READ_SORTED_ROW}, {<<1, MaxCoord>>}, FALSE)
  \/ Submit("q1", {1, MaxBuf}, FALSE)
  \/ Destroy("q1")
  \/ QueryInit("q2", {WRITE, WRITE_UNSORTED}, {<<>>}, FALSE)
  \/ Submit("q2", {0}, FALSE)
  \/ Destroy("q2")

SpecConc == Init /\ [][NextConc]_vars

(* ---------------------------- fragment names --------------------------- *)
MaxCreations == 3
\* The array all writers write to, the MAC addresses of two hosts and the
\* values pthread_self() returns in their threads.
ArrayUri == <<"a">>
Macs == {<<"0", "a">>, <<"0", "b">>}
Tids == {1, 12}
Threads == Macs \X Tids

\* printf's %llu: the decimal digits of a number.
Digit(n) == <<"0", "1", "2", "3", "4", "5", "6", "7", "8", "9">>[n + 1]
RECURSIVE Digits(_)
Digits(n) == IF n < 10 THEN <<Digit(n)>> ELSE Digits(n \div 10) \o <<Digit(n % 10)>>

\* Query::new_fragment_name with everything it reads made explicit: the uri
\* of the array, the MAC address of the host (empty when it cannot be read),
\* the id of the calling thread and the millisecond gettimeofday returns.
\* sprintf("%s/.__%s%llu_%llu", uri, mac, tid, ms).
new_fragment_name_text(uri, mac, tid, ms) ==
  IF mac = <<>> THEN <<>>
  ELSE uri \o <<"/", ".", "_", "_">> \o mac \o Digits(tid) \o <<"_">> \o Digits(ms)

\* A millisecond passes.
Tick ==
  /\ wall < MaxMs
  /\ wall' = wall + 1
  /\ UNCHANGED <<exceptNames, created>>

\* A thread creates a fragment for a write query of the array (Query::init in
\* WRITE mode, or the first submission of another write mode): it obtains the
\* name of the fragment.  Nothing makes the clock advance between two calls.
CreateFragment(mac, tid) ==
  /\ Len(created) < MaxCreations
  /\ \E macOk \in BOOLEAN :
       created' = Append(created,
         [mac |-> mac, tid |-> tid,
          name |-> new_fragment_name_text(ArrayUri, IF macOk THEN mac ELSE <<>>,
                                          tid, wall)])
  /\ UNCHANGED <<exceptNames, wall>>

\* Writers on two hosts, two threads each, create fragments of one array
\* while time passes.
NextNames ==
  \/ Tick
  \/ \E th \in Threads : CreateFragment(th[1], th[2])

SpecNames == Init /\ [][NextNames]_vars


(* ------------------- unordered writes, one after the other ------------- *)
MaxWrites == 2

\* A submission of an unordered write query.  The cells of the n-th batch
\* carry the value n.  A millisecond may have passed since the thread last
\* read the clock (`passed`) or not: then gettimeofday returns the same value
\* again.
UnorderedSubmitted(i, batch, w) ==
  /\ SubmittedCore(i, queries[i], batch, w.clock, FALSE, w)
  /\ writes' = IF w.st = Ok THEN Append(writes, batch) ELSE writes
  /\ UNCHANGED exceptWrites

UnorderedSubmit(i) ==
  /\ queries[i].inited
  /\ queries[i].mode_ = WRITE_UNSORTED
  /\ Len(writes) < MaxWrites
  /\ \E passed \in BOOLEAN :
       /\ IF passed THEN clock < MaxMs ELSE clock >= 1
       /\ \E batch \in {b \in AllBatches(Len(writes) + 1) : Distinct(b)} :
          \E in \in SubmitInputs(queries[i], FALSE) :
            UnorderedSubmitted(i, batch,
              async_process(World(queries[i], dirs,
                                  IF passed THEN clock ELSE clock - 1),
                            dense, batch, 0, in))

\* A client writes unordered batches with one query, submission after
\* submission, and then reads the whole domain with another query.
NextUnordered ==
  \/ QueryInit("q1", {WRITE_UNSORTED}, {<<>>}, FALSE)
  \/ queries["q2"].mode_ = "" /\ UnorderedSubmit("q1")
  \/ QueryInit("q2", {READ}, {<<1, MaxCoord>>}, FALSE)
  \/ Submit("q2", {MaxBuf}, FALSE)
  \/ Destroy("q2")

SpecUnordered == Init /\ [][NextUnordered]_vars

(* ------------------------------- key-value ---------------------------- *)
MaxKeys == 2
DigestMod == 4
\* The keys of the clients: a type tag (one byte, a Datatype) and a string of
\* bytes.
KeyTypes == {0, 1}
KeyStrings == {<<0>>, <<1>>, <<1, 0>>}
AllKeys == [type : KeyTypes, bytes : KeyStrings]
KVQueryError == "KVQueryError"

\* Keys::Keys and Keys::add_key: the offset of the key in keys_var_ goes to
\* keys_, its `size` first bytes to keys_var_ and its type to types_.
Keys_new == [keys_ |-> <<>>, keys_var_ |-> <<>>, types_ |-> <<>>, key_num_ |-> 0]
\* add_key with the offset taken after the bytes of the key were written.
add_key_offset_after(K, key, type, size) ==
  [keys_ |-> Append(K.keys_, Len(K.keys_var_) + size),
   keys_var_ |-> K.keys_var_ \o SubSeq(key, 1, size),
   types_ |-> Append(K.types_, type),
   key_num_ |-> K.key_num_ + 1]
add_key(K, key, type, size) ==
  [keys_ |-> Append(K.keys_, Len(K.keys_var_)),
   keys_var_ |-> K.keys_var_ \o SubSeq(key, 1, size),
   types_ |-> Append(K.types_, type),
   key_num_ |-> K.key_num_ + 1]

\* The bytes of an unsigned number in memory (little endian), and the 8 of
\* a uint64_t.
RECURSIVE BytesOf(_, _)
BytesOf(n, count) ==
  IF count = 0 THEN <<>> ELSE <<n % 256>> \o BytesOf(n \div 256, count - 1)
Bytes64(n) == BytesOf(n, 8)

\* MD5: a digest of two 64-bit words computed from every byte of the message
\* and its position.  The digest space is small: as with MD5, messages are
\* more than digests and two messages may have the same digest.
RECURSIVE WeightedSum(_, _)
WeightedSum(msg, salt) ==
  IF msg = <<>> THEN 0
  ELSE (Len(msg) + salt) * (msg[Len(msg)] + 1)
         + WeightedSum(SubSeq(msg, 1, Len(msg) - 1), salt)
MD5(msg) == <<WeightedSum(msg, 0) % DigestMod, WeightedSum(msg, 1) % DigestMod>>

\* The three MD5Update calls: the type, the size, and (unsigned int)size
\* bytes from position `from` of the buffer (C++ index).  The cast keeps a
\* size below 2^32, and every size here is.
KeyDigest(type, size, buffer, from) ==
  MD5(<<type>> \o Bytes64(size) \o SubSeq(buffer, from + 1, from + size))

\* Coordinates computed for every key from the size of the whole buffer.
compute_coords_whole(K) ==
  [i \in 1..K.key_num_ |->
     KeyDigest(K.types_[i], Len(K.keys_var_), K.keys_var_, 0)]

\* KVQuery::compute_coords: the coordinates (d1, d2) of every key of the
\* batch, from its type, its size (the distance to the next offset, or to the
\* end of keys_var_ for the last key) and its bytes.
compute_coords(K) ==
  [i \in 1..K.key_num_ |->
     KeyDigest(K.types_[i],
               IF i # K.key_num_ THEN K.keys_[i + 1] - K.keys_[i]
               ELSE Len(K.keys_var_) - K.keys_[i],
               K.keys_var_, K.keys_[i])]

\* A subarray computed from the bytes of the key alone.
compute_subarray_no_type(K, mallocOk) ==
  IF ~mallocOk \/ K.key_num_ # 1 THEN [st |-> KVQueryError, subarray |-> <<>>]
  ELSE LET d == MD5(Bytes64(Len(K.keys_var_)) \o K.keys_var_)
       IN  [st |-> Ok, subarray |-> <<d[1], d[1], d[2], d[2]>>]

\* A subarray computed for whatever keys_var_ holds, one key or not.
compute_subarray_any(K, mallocOk) ==
  IF ~mallocOk THEN [st |-> KVQueryError, subarray |-> <<>>]
  ELSE LET d == KeyDigest(IF K.types_ = <<>> THEN 0 ELSE K.types_[1],
                          Len(K.keys_var_), K.keys_var_, 0)
       IN  [st |-> Ok, subarray |-> <<d[1], d[1], d[2], d[2]>>]

\* KVQuery::compute_subarray: the point [d1, d1] x [d2, d2] of the one key of
\* a read, from the first type and all of keys_var_.
compute_subarray(K, mallocOk) ==
  IF ~mallocOk \/ K.key_num_ # 1 THEN [st |-> KVQueryError, subarray |-> <<>>]
  ELSE LET d == KeyDigest(K.types_[1], Len(K.keys_var_), K.keys_var_, 0)
       IN  [st |-> Ok, subarray |-> <<d[1], d[1], d[2], d[2]>>]

\* KVQuery::KVQuery: no underlying query.
NullArrayQuery == [alloc |-> FALSE, subarray |-> <<>>, cells |-> <<>>]
KVQuery_new == [type_ |-> "", st |-> "", submitted |-> FALSE, query_ |-> NullArrayQuery]

\* KVQuery::init with the default attributes.  A write computes the
\* coordinates of its keys and hands the cells (the n-th key comes with the
\* value n) to a new unordered Query; a read computes its subarray and hands
\* it to a new global-order Query; when that fails it returns the error
\* before a Query is created.
KVQuery_read_init(kvQuery, r) ==
  IF r.st # Ok THEN [kvQuery EXCEPT !.type_ = READ, !.st = r.st]
  ELSE [kvQuery EXCEPT !.type_ = READ, !.st = Ok,
          !.query_ = [alloc |-> TRUE, subarray |-> r.subarray, cells |-> <<>>]]

KVQuery_write_init(kvQuery, coords) ==
  [kvQuery EXCEPT !.type_ = WRITE, !.st = Ok,
     !.query_ = [alloc |-> TRUE, subarray |-> <<>>,
                 cells |-> [i \in 1..Len(coords) |->
                              [coords |-> coords[i], value |-> i]]]]

KVQuery_init(kvQuery, type, K, mallocOk) ==
  IF type = WRITE THEN KVQuery_write_init(kvQuery, compute_coords(K))
  ELSE KVQuery_read_init(kvQuery, compute_subarray(K, mallocOk))

\* The underlying array: an unordered write lays its cells over the array,
\* the later of two cells with the same coordinates winning; a read returns
\* the values of the cells in its subarray.
ArrayWriteUnordered(cells, batch) ==
  LET written == {batch[i].coords : i \in 1..Len(batch)}
      last(d) == Max({i \in 1..Len(batch) : batch[i].coords = d})
  IN  {c \in cells : c.coords \notin written}
        \cup {[coords |-> d, value |-> batch[last(d)].value] : d \in written}
ArrayRead(cells, sub) ==
  {c.value : c \in {e \in cells : /\ sub[1] <= e.coords[1] /\ e.coords[1] <= sub[2]
                                  /\ sub[3] <= e.coords[2] /\ e.coords[2] <= sub[4]}}

NoGet == [got |-> FALSE, key |-> [type |-> 0, bytes |-> <<>>], values |-> {}]

\* The client adds a key to its Keys object.
KeysAdd(k) ==
  /\ kvq.type_ = ""
  /\ kvKeys.key_num_ < MaxKeys
  /\ kvKeys' = add_key(kvKeys, k.bytes, k.type, Len(k.bytes))
  /\ kvAdded' = Append(kvAdded, k)
  /\ UNCHANGED <<exceptKV, kvq, kvCells, kvPut, kvLast>>

\* The client creates a key-value query with its keys: a put of all of them
\* (one bulk put is made) or a get.
KVInit(type) ==
  /\ kvq.type_ = ""
  /\ type = WRITE => kvPut = <<>>
  /\ \E mallocOk \in (IF type = READ THEN BOOLEAN ELSE {TRUE}) :
       kvq' = KVQuery_init(kvq, type, kvKeys, mallocOk)
  /\ UNCHANGED <<exceptKV, kvKeys, kvAdded, kvCells, kvPut, kvLast>>

\* The client submits the underlying query of its key-value query.
KVSubmit ==
  /\ kvq.query_.alloc
  /\ ~kvq.submitted
  /\ kvq' = [kvq EXCEPT !.submitted = TRUE]
  /\ IF kvq.type_ = WRITE
     THEN /\ kvCells' = ArrayWriteUnordered(kvCells, kvq.query_.cells)
          /\ kvPut' = [i \in 1..Len(kvAdded) |-> [key |-> kvAdded[i], value |-> i]]
          /\ UNCHANGED kvLast
     ELSE /\ kvLast' = [got |-> TRUE, key |-> kvAdded[1],
                        values |-> ArrayRead(kvCells, kvq.query_.subarray)]
          /\ UNCHANGED <<kvCells, kvPut>>
  /\ UNCHANGED <<exceptKV, kvKeys, kvAdded>>

\* The client frees the query and the keys.
KVFree ==
  /\ kvq.type_ # ""
  /\ kvq' = KVQuery_new
  /\ kvKeys' = Keys_new
  /\ kvAdded' = <<>>
  /\ kvLast' = NoGet
  /\ UNCHANGED <<exceptKV, kvCells, kvPut>>

\* A client that only fills and empties a Keys object: keys of any size, the
\* empty key included, and of the first `size` bytes of a longer buffer.
KeyBuffers == KeyStrings \cup {<<>>}
KeysAddSized(type, buffer, size) ==
  /\ kvKeys.key_num_ <= MaxKeys
  /\ kvKeys' = add_key(kvKeys, buffer, type, size)
  /\ kvAdded' = Append(kvAdded, [type |-> type, bytes |-> SubSeq(buffer, 1, size)])
  /\ UNCHANGED <<exceptKV, kvq, kvCells, kvPut, kvLast>>
\* Keys::~Keys and Keys::Keys: the client takes a new Keys object.
KeysRenew ==
  /\ kvKeys.key_num_ > 0
  /\ kvKeys' = Keys_new
  /\ kvAdded' = <<>>
  /\ UNCHANGED <<exceptKV, kvq, kvCells, kvPut, kvLast>>

NextKeys ==
  \/ \E type \in KeyTypes : \E buffer \in KeyBuffers :
     \E size \in 0..Len(buffer) : KeysAddSized(type, buffer, size)
  \/ KeysRenew

SpecKeys == Init /\ [][NextKeys]_vars

\* Keys::add_key with its errors: the offset, the bytes and the type are
\* written one after the other to keys_, keys_var_ and types_, and the
\* function returns at the first write that fails (failAt: 0 when none
\* does).  A Buffer::write that fails leaves its buffer as it was.
BufferError == "BufferError"
add_key_status(K, key, type, size, failAt) ==
  IF failAt = 1 THEN [st |-> BufferError, keys |-> K]
  ELSE IF failAt = 2
  THEN [st |-> BufferError,
        keys |-> [K EXCEPT !.keys_ = Append(@, Len(K.keys_var_))]]
  ELSE IF failAt = 3
  THEN [st |-> BufferError,
        keys |-> [K EXCEPT !.keys_ = Append(@, Len(K.keys_var_)),
                           !.keys_var_ = @ \o SubSeq(key, 1, size)]]
  ELSE [st |-> Ok, keys |-> add_key(K, key, type, size)]
KeysAddStatus(type, buffer, size, failAt) ==
  /\ Len(kvKeys.keys_) <= MaxKeys
  /\ kvKeys' = add_key_status(kvKeys, buffer, type, size, failAt).keys
  /\ kvAdded' = IF failAt = 0
                THEN Append(kvAdded, [type |-> type,
                                      bytes |-> SubSeq(buffer, 1, size)])
                ELSE kvAdded
  /\ keysLast' = [called |-> TRUE,
                  st |-> add_key_status(kvKeys, buffer, type, size, failAt).st,
                  before |-> kvKeys]
  /\ UNCHANGED exceptKeysLast
\* The client takes a new Keys object.
KeysRenewStatus ==
  /\ keysLast.called
  /\ kvKeys' = Keys_new
  /\ kvAdded' = <<>>
  /\ keysLast' = [called |-> FALSE, st |-> "", before |-> Keys_new]
  /\ UNCHANGED exceptKeysLast

NextKeysStatus ==
  \/ \E type \in KeyTypes : \E buffer \in KeyBuffers :
     \E size \in 0..Len(buffer) : \E failAt \in 0..3 :
       KeysAddStatus(type, buffer, size, failAt)
  \/ KeysRenewStatus

SpecKeysStatus == Init /\ [][NextKeysStatus]_vars

NextKV ==
  \/ \E k \in AllKeys : KeysAdd(k)
  \/ KVInit(WRITE)
  \/ KVInit(READ)
  \/ KVSubmit
  \/ KVFree

SpecKV == Init /\ [][NextKV]_vars

(* ------------------------- progress after overflow -------------------- *)
\* A sparse array of ExampleCells cells of one fixed-size attribute of
\* attr_size bytes, committed as one fragment: cell c holds the value c - 1.
ExampleCells == 8
attr_size == 4
ExampleBuffer == 12
MaxSubmissions == ExampleCells + 1
ExampleFragment ==
  [name |-> <<VisiblePrefix, 1>>, cells |-> [c \in 1..ExampleCells |-> <<c, c - 1>>]]
\* The buffer sizes a client passes, in bytes: no room for a cell, room for
\* one cell, and the size of the example.
BufferSizes == {0, attr_size, ExampleBuffer}

InitProgress ==
  /\ queries = [i \in QIds |-> Query_new]
  /\ dirs = {ExampleFragment}
  /\ clock = 1
  /\ dense = FALSE
  /\ submitted = [ms \in 1..MaxMs |-> NoCells]
  /\ hist = [i \in QIds |-> Hist_new]
  /\ LayersInit

\* A read submission with a buffer of `bytes` bytes: the buffer has room for
\* bytes / attr_size cells, and the size is updated in place to the bytes
\* produced.
ProgressSubmitted(i, bytes, w) ==
  /\ SubmittedCore(i, queries[i], <<>>, Target(queries[i], clock), FALSE, w)
  /\ trace' = Append(trace, [given |-> bytes,
                             used |-> attr_size * Len(w.q.buffers),
                             st |-> w.q.status_])
  /\ UNCHANGED exceptTrace

\* The client resubmits until the query is completed.
ProgressSubmit(i, sizes) ==
  /\ queries[i].inited
  /\ queries[i].status_ # COMPLETED
  /\ Len(trace) < MaxSubmissions
  /\ \E bytes \in sizes :
     \E in \in SubmitInputs(queries[i], FALSE) :
       ProgressSubmitted(i, bytes,
                         async_process(World(queries[i], dirs, clock), dense,
                                       <<>>, bytes \div attr_size, in))

\* One client reads the example array, all of it or a part, in any read mode.
NextProgress ==
  \/ QueryInit("q1", {READ, READ_SORTED_COL, READ_SORTED_ROW},
               {<<1, ExampleCells>>, <<2, ExampleCells - 1>>}, FALSE)
  \/ ProgressSubmit("q1", BufferSizes)

SpecProgress == InitProgress /\ [][NextProgress]_vars


(* ------------------------- the arguments of init ----------------------- *)
\* The attribute lists a client passes: a null pointer, names of the schema,
\* a name twice, a null name, a name of name_max_len + 1 characters, a name
\* of name_max_len characters and a short name that are not in the schema.
LongName == Name([k \in 1..(name_max_len + 1) |-> "x"])
MaxLenName == Name([k \in 1..name_max_len |-> "x"])
UnknownName == Name(<<"b">>)
AttributeLists ==
  {NullAttributes, Attributes(<<a1>>), Attributes(<<a2, a1>>),
   Attributes(<<a1, a1>>), Attributes(<<NullName>>),
   Attributes(<<a1, LongName>>), Attributes(<<MaxLenName>>),
   Attributes(<<a1, UnknownName>>), Attributes(<<a2, constants_coords, a1>>)}
\* The subarrays a client passes: a null pointer or a range, in the domain
\* [1, MaxCoord] or not.
AnySubarrays ==
  {<<>>} \cup {r \in (0..(MaxCoord + 1)) \X (0..(MaxCoord + 1)) : r[1] <= r[2]}
InDomain(r) == r = <<>> \/ (1 <= r[1] /\ r[2] <= MaxCoord)
NoInit == [attributes |-> NullAttributes, subarray |-> <<>>, st |-> ""]

\* Query::init with any mode, attribute list and subarray.
InitArgs(i) ==
  /\ queries[i].mode_ = ""
  /\ \E mode \in QueryMode :
     \E subarray \in AnySubarrays :
     \E attributes \in AttributeLists :
     \E in \in InitInputs(mode, Len(VisibleFragments(dirs)), FALSE) :
       /\ mode = WRITE => clock < MaxMs
       /\ QueryInitedCore(i, VisibleFragments(dirs),
                          init(World(queries[i], dirs, clock),
                               VisibleFragments(dirs), mode, subarray,
                               attributes, dense, in))
       /\ lastInit' =
            [attributes |-> attributes, subarray |-> subarray,
             st |-> init(World(queries[i], dirs, clock),
                         VisibleFragments(dirs), mode, subarray,
                         attributes, dense, in).st]
       /\ UNCHANGED exceptLastInit

\* A submission for which the client has set the size of every buffer of the
\* query to ExampleBuffer bytes: one buffer per selected attribute of a
\* fixed size, two (offsets, values) per attribute of a variable size.
RECURSIVE buffer_num(_)
buffer_num(attribute_ids) ==
  IF attribute_ids = <<>> THEN 0
  ELSE (IF var_size(Head(attribute_ids)) THEN 2 ELSE 1)
         + buffer_num(Tail(attribute_ids))
WithSizes(q, size) ==
  [q EXCEPT !.buffer_sizes_ = [b \in 1..buffer_num(q.attribute_ids_) |-> size]]

SubmitSized(i) ==
  /\ queries[i].inited
  /\ is_write_mode(queries[i].mode_) /\ queries[i].fragments_ = <<>>
       => clock < MaxMs
  /\ \E batch \in (IF is_write_mode(queries[i].mode_)
                   THEN Batches(queries[i], dirs, Target(queries[i], clock))
                   ELSE {<<>>}) :
     \E in \in SubmitInputs(queries[i], FALSE) :
       Submitted(i, queries[i], batch, Target(queries[i], clock),
                 is_read_mode(queries[i].mode_) /\
                   VisibleFragments(dirs) # hist[i].passed,
                 async_process(World(WithSizes(queries[i], ExampleBuffer),
                                     dirs, clock),
                               dense, batch, MaxBuf, in))

DestroyArgs(i) ==
  /\ queries[i].mode_ # ""
  /\ DestroyedCore(i, Query_delete(World(queries[i], dirs, clock)))
  /\ lastInit' = NoInit
  /\ UNCHANGED exceptLastInit

\* One client that passes any arguments to init.
NextArgs ==
  \/ InitArgs("q1")
  \/ SubmitSized("q1")
  \/ DestroyArgs("q1")

SpecArgs == Init /\ [][NextArgs]_vars

\* Query::coords_buffer_i: the buffers of the attributes before the
\* coordinates are counted, one for a fixed and two for a variable size; the
\* output is written when the coordinates are met and is otherwise what it
\* was, and the error is returned when the output is -1 after the loop.
RECURSIVE coords_buffer_i_loop(_, _, _)
coords_buffer_i_loop(attribute_ids, buffer_i, out) ==
  IF attribute_ids = <<>> THEN out
  ELSE IF Head(attribute_ids) = Len(ArraySchema_attributes) THEN buffer_i
  ELSE coords_buffer_i_loop(Tail(attribute_ids),
                            IF var_size(Head(attribute_ids))
                            THEN buffer_i + 2 ELSE buffer_i + 1,
                            out)
coords_buffer_i(q, before) ==
  LET out == coords_buffer_i_loop(q.attribute_ids_, 0, before)
  IN  [st |-> IF out = -1 THEN QueryError ELSE Ok, coords_buffer_i |-> out]

\* The values the output of coords_buffer_i holds before the call.
OutputsBefore == {-1, 0, 5}
CoordsBufferI(i, before) ==
  /\ queries[i].inited
  /\ lastCoords' = [called |-> TRUE, before |-> before,
                    attribute_ids |-> queries[i].attribute_ids_,
                    st |-> coords_buffer_i(queries[i], before).st,
                    coords_buffer_i |->
                      coords_buffer_i(queries[i], before).coords_buffer_i]
  /\ UNCHANGED <<coreVars, lastInit, exceptLastCoords>>

\* One client that inits a query with any arguments and asks for the index
\* of the coordinates buffer.
NextCoords ==
  \/ InitArgs("q1")
  \/ \E before \in OutputsBefore : CoordsBufferI("q1", before)
  \/ DestroyArgs("q1")

SpecCoords == Init /\ [][NextCoords]_vars


(* ------------------------ key-value metadata --------------------------- *)
\* The most attributes a key-value schema is given.
MaxAttrs == 3
\* The reserved names.
key_dim_1 == "__key_dim_1"
key_dim_2 == "__key_dim_2"
key_attr_name == "__key"
key_type_attr_name == "__key_type"
\* The predicate without the coordinates name.
reserved_name_without_coords(name) ==
  \/ name = key_attr_name
  \/ name = key_type_attr_name
  \/ name = key_dim_1
  \/ name = key_dim_2
\* constants::reserved_name.  The coordinates name is kept as the characters
\* of constants_coords; here names are strings.
reserved_name(name) ==
  \/ name = key_attr_name
  \/ name = key_type_attr_name
  \/ name = "__coords"
  \/ name = key_dim_1
  \/ name = key_dim_2
\* The names clients try: names of their own, every reserved name, and names
\* one character away from a reserved one.
AttrNames ==
  {"a1", "a2", "__coords", "__key", "__key_type", "__key_dim_1",
   "__key_dim_2", "__key_dim_3", "_key", "__KEY"}
NoAdd == [called |-> FALSE, name |-> "", st |-> "", before |-> <<>>]
KVMetadataError == "KVMetadataError"
\* add_attribute of a key-value schema: a reserved name is an error and the
\* attribute is not added.
add_attribute(kv_metadata, name) ==
  IF reserved_name(name)
  THEN [st |-> KVMetadataError, kv_metadata |-> kv_metadata]
  ELSE [st |-> Ok,
        kv_metadata |-> [kv_metadata EXCEPT !.attributes_ = Append(@, name)]]
\* tiledb_kv_metadata_create: a schema with no user attribute.
KVMetadataCreate ==
  /\ ~kvMeta.alloc
  /\ kvMeta' = [alloc |-> TRUE, attributes_ |-> <<>>, last |-> NoAdd]
  /\ UNCHANGED exceptKVMeta
\* tiledb_kv_metadata_add_attribute with an attribute of the given name.
KVMetadataAddAttribute(name) ==
  /\ kvMeta.alloc
  /\ Len(kvMeta.attributes_) < MaxAttrs
  /\ LET r == add_attribute(kvMeta, name)
     IN kvMeta' = [r.kv_metadata EXCEPT
                     !.last = [called |-> TRUE, name |-> name, st |-> r.st,
                               before |-> kvMeta.attributes_]]
  /\ UNCHANGED exceptKVMeta
\* tiledb_kv_metadata_free.
KVMetadataFree ==
  /\ kvMeta.alloc
  /\ kvMeta' = [alloc |-> FALSE, attributes_ |-> <<>>, last |-> NoAdd]
  /\ UNCHANGED exceptKVMeta

NextKVMeta ==
  \/ KVMetadataCreate
  \/ \E name \in AttrNames : KVMetadataAddAttribute(name)
  \/ KVMetadataFree

SpecKVMeta == Init /\ [][NextKVMeta]_vars


(* ---------------------- the buffers of a KVQuery ----------------------- *)
\* The schema of the key-value store: the user attributes a1 (fixed size) and
\* a2 (variable size), then the key, the key type and the coordinates.  The id
\* of an attribute is its position, from 0.
KV_attribute_names == <<"a1", "a2", key_attr_name, key_type_attr_name, "__coords">>
KV_attribute_name(attr_id) == KV_attribute_names[attr_id + 1]
KV_var_size(attr_id) == KV_attribute_name(attr_id) \in {"a2", key_attr_name}
coords_size == 16
\* ArrayMetadata::get_attribute_ids: the id of every name, in order.
KV_get_attribute_ids(names) ==
  IF \E i \in 1..Len(names) : names[i] \notin Range(KV_attribute_names)
  THEN [st |-> "ArrayMetadataError", ids |-> <<>>]
  ELSE [st |-> Ok,
        ids |-> [i \in 1..Len(names) |->
                   (CHOOSE k \in 1..Len(KV_attribute_names) :
                      KV_attribute_names[k] = names[i]) - 1]]

\* The attribute names with the three reserved ones in front.
attribute_names_reserved_first(type, attributes) ==
  IF ~attributes.null /\ Len(attributes.names) > 0
  THEN IF type = WRITE
       THEN <<key_attr_name, key_type_attr_name, "__coords">> \o attributes.names
       ELSE attributes.names
  ELSE IF type = READ
       THEN SubSeq(KV_attribute_names, 1, Len(KV_attribute_names) - 3)
       ELSE KV_attribute_names
\* KVQuery::get_attribute_ids, the names: the caller's, with the key, the key
\* type and the coordinates after them in a write; or all of the schema,
\* without its last three in a read.
attribute_names(type, attributes) ==
  IF ~attributes.null /\ Len(attributes.names) > 0
  THEN IF type = WRITE
       THEN attributes.names \o <<key_attr_name, key_type_attr_name, "__coords">>
       ELSE attributes.names
  ELSE IF type = READ
       THEN SubSeq(KV_attribute_names, 1, Len(KV_attribute_names) - 3)
       ELSE KV_attribute_names
KVQuery_get_attribute_ids(type, attributes) ==
  KV_get_attribute_ids(attribute_names(type, attributes))

Keys_keys_size(K) == 8 * Len(K.keys_)
Keys_keys_var_size(K) == Len(K.keys_var_)
Keys_types_size(K) == Len(K.types_)
\* A buffer: whose it is, for a buffer of the caller its index (from 0), and
\* what the KVQuery has put into it.
BufferOf(owner, i, data) == [owner |-> owner, i |-> i, data |-> data]
\* KVQuery::set_buffers: per attribute, in the order of the ids, the buffers
\* of the keys for the key attribute, of the types for the key type, a new
\* buffer of key_num * coords_size bytes for the coordinates, and the next
\* buffer of the caller (the next two for a variable size) for any other.
\* buff_i counts the caller's buffers taken (sequences are indexed from 1).
RECURSIVE set_buffers(_, _, _, _, _, _)
set_buffers(K, attribute_ids, buffer_sizes, buff_i, acc, mallocOk) ==
  IF attribute_ids = <<>>
  THEN [st |-> Ok, buffers_ |-> acc.buffers_, buffer_sizes_ |-> acc.buffer_sizes_,
        user_buffer_sizes_num_ |-> buff_i]
  ELSE
    LET attr_id == Head(attribute_ids)
        attr_name == KV_attribute_name(attr_id)
    IN  IF attr_name = key_attr_name
        THEN set_buffers(K, Tail(attribute_ids), buffer_sizes, buff_i,
               [buffers_ |-> acc.buffers_ \o <<BufferOf("keys_", 0, K.keys_),
                                               BufferOf("keys_var_", 0, K.keys_var_)>>,
                buffer_sizes_ |-> acc.buffer_sizes_ \o
                                    <<Keys_keys_size(K), Keys_keys_var_size(K)>>],
               mallocOk)
        ELSE IF attr_name = key_type_attr_name
        THEN set_buffers(K, Tail(attribute_ids), buffer_sizes, buff_i,
               [buffers_ |-> Append(acc.buffers_, BufferOf("types_", 0, K.types_)),
                buffer_sizes_ |-> Append(acc.buffer_sizes_, Keys_types_size(K))],
               mallocOk)
        ELSE IF attr_name = "__coords"
        THEN IF ~mallocOk
             THEN [st |-> "StorageManagerError", buffers_ |-> acc.buffers_,
                   buffer_sizes_ |-> acc.buffer_sizes_,
                   user_buffer_sizes_num_ |-> 0]
             ELSE set_buffers(K, Tail(attribute_ids), buffer_sizes, buff_i,
                    [buffers_ |-> Append(acc.buffers_, BufferOf("coords", 0, <<>>)),
                     buffer_sizes_ |-> Append(acc.buffer_sizes_,
                                              K.key_num_ * coords_size)],
                    mallocOk)
        ELSE IF KV_var_size(attr_id)
        THEN set_buffers(K, Tail(attribute_ids), buffer_sizes, buff_i + 2,
               [buffers_ |-> acc.buffers_ \o <<BufferOf("user", buff_i, <<>>),
                                               BufferOf("user", buff_i + 1, <<>>)>>,
                buffer_sizes_ |-> acc.buffer_sizes_ \o
                                    <<buffer_sizes[buff_i + 1],
                                      buffer_sizes[buff_i + 2]>>],
               mallocOk)
        ELSE set_buffers(K, Tail(attribute_ids), buffer_sizes, buff_i + 1,
               [buffers_ |-> Append(acc.buffers_, BufferOf("user", buff_i, <<>>)),
                buffer_sizes_ |-> Append(acc.buffer_sizes_,
                                         buffer_sizes[buff_i + 1])],
               mallocOk)

\* The number of buffers the caller passes for a list of names: one per
\* attribute of its own of a fixed size, two per one of a variable size.
RECURSIVE user_buffer_num(_)
user_buffer_num(ids) ==
  IF ids = <<>> THEN 0
  ELSE (IF reserved_name(KV_attribute_name(Head(ids))) THEN 0
        ELSE IF KV_var_size(Head(ids)) THEN 2 ELSE 1)
       + user_buffer_num(Tail(ids))

\* The buffer the coordinates are computed into: the first.
coords_buffer_front(buffers) == 1
\* KVQuery::compute_coords, the buffer the coordinates are computed into:
\* buffers_.back().
coords_buffer(buffers) == Len(buffers)

\* KVQuery::init from set_buffers on: the coordinates are computed into the
\* last buffer in a write, the subarray is computed in a read, and the
\* underlying query is initialized with the layout of the type.
KVQuery_init_buffers(type, attributes, ids, b, subarrayOk) ==
  IF b.st # Ok
  THEN [kvb EXCEPT !.type_ = type, !.st = b.st, !.attributes = attributes,
                   !.buffers_ = b.buffers_, !.buffer_sizes_ = b.buffer_sizes_,
                   !.phase = "failed"]
  ELSE IF type = READ /\ compute_subarray(kvKeys, subarrayOk).st # Ok
  THEN [kvb EXCEPT !.type_ = type,
                   !.st = compute_subarray(kvKeys, subarrayOk).st,
                   !.attributes = attributes,
                   !.buffers_ = b.buffers_, !.buffer_sizes_ = b.buffer_sizes_,
                   !.user_buffer_sizes_ = b.user_buffer_sizes_,
                   !.user_buffer_sizes_num_ = b.user_buffer_sizes_num_,
                   !.phase = "failed"]
  ELSE [type_ |-> type, st |-> Ok, attributes |-> attributes,
        names |-> attribute_names(type, attributes),
        attribute_ids |-> ids,
        buffers_ |-> IF type = WRITE
                     THEN [b.buffers_ EXCEPT ![coords_buffer(b.buffers_)].data =
                                               compute_coords(kvKeys)]
                     ELSE b.buffers_,
        buffer_sizes_ |-> b.buffer_sizes_,
        user_buffer_sizes_ |-> b.user_buffer_sizes_,
        user_buffer_sizes_num_ |-> b.user_buffer_sizes_num_,
        layout |-> IF type = WRITE THEN "UNORDERED" ELSE "GLOBAL_ORDER",
        phase |-> "inited"]

\* The attribute lists a caller passes: none, its own attributes, and lists
\* that name a reserved attribute or an attribute the store does not have.
NoAttributes == [null |-> TRUE, names |-> <<>>]
KVAttributeLists ==
  {NoAttributes} \cup
  {[null |-> FALSE, names |-> n] :
     n \in {<<>>, <<"a1">>, <<"a2">>, <<"a1", "a2">>, <<"a2", "a1">>,
            <<key_attr_name, "a1">>, <<"a1", key_type_attr_name>>,
            <<"b">>}}
UserSizes == {4, 12}

\* KVQuery::init on a new KVQuery, with the Keys object of the client.
KVQueryInit(type, attributes, buffer_sizes, in) ==
  LET g == KVQuery_get_attribute_ids(type, attributes)
      b == set_buffers(kvKeys, g.ids, buffer_sizes, 0,
                       [buffers_ |-> <<>>, buffer_sizes_ |-> <<>>], in.mallocOk)
  IN  /\ kvb.phase = ""
      /\ g.st = Ok => Len(buffer_sizes) = user_buffer_num(g.ids)
      /\ g.st # Ok => buffer_sizes = <<>>
      /\ kvb' = IF g.st # Ok
                THEN [kvb EXCEPT !.type_ = type, !.st = g.st,
                                 !.attributes = attributes, !.phase = "failed"]
                ELSE KVQuery_init_buffers(type, attributes, g.ids,
                       b @@ [user_buffer_sizes_ |-> buffer_sizes],
                       in.subarrayOk)
      /\ UNCHANGED exceptKVB
\* The underlying query runs: a read records in buffer_sizes_ what it has
\* written to every buffer, no more than the buffer holds.
KVQuerySubmit(empty) ==
  /\ kvb.phase = "inited"
  /\ kvb.type_ = WRITE => empty = {}
  /\ kvb' = [kvb EXCEPT !.buffer_sizes_ =
                          [k \in DOMAIN kvb.buffer_sizes_ |->
                             IF k \in empty THEN 0 ELSE kvb.buffer_sizes_[k]],
                        !.phase = "submitted"]
  /\ UNCHANGED exceptKVB
\* KVQuery::reset_user_buffer_sizes.
reset_user_buffer_sizes(q) ==
  [i \in DOMAIN q.user_buffer_sizes_ |->
     IF i - 1 < q.user_buffer_sizes_num_ THEN q.buffer_sizes_[i]
     ELSE q.user_buffer_sizes_[i]]
KVQueryResetUserBufferSizes ==
  /\ kvb.phase = "submitted"
  /\ kvb' = [kvb EXCEPT !.user_buffer_sizes_ = reset_user_buffer_sizes(kvb),
                        !.phase = "reset"]
  /\ UNCHANGED exceptKVB
\* KVQuery::~KVQuery, and the client takes a new KVQuery.
KVQueryFree ==
  /\ kvb.phase \in {"failed", "reset"}
  /\ kvb' = [type_ |-> "", st |-> "", attributes |-> NoAttributes,
             names |-> <<>>, attribute_ids |-> <<>>, buffers_ |-> <<>>,
             buffer_sizes_ |-> <<>>, user_buffer_sizes_ |-> <<>>,
             user_buffer_sizes_num_ |-> 0, layout |-> "", phase |-> ""]
  /\ UNCHANGED exceptKVB

SizesUpTo(n) == UNION {[1..m -> UserSizes] : m \in 0..n}
NextKVB ==
  \/ \E k \in AllKeys : kvb.phase = "" /\ KeysAdd(k)
  \/ \E type \in {READ, WRITE} : \E attributes \in KVAttributeLists :
     \E buffer_sizes \in SizesUpTo(3) :
     \E in \in [mallocOk : BOOLEAN, subarrayOk : BOOLEAN] :
       KVQueryInit(type, attributes, buffer_sizes, in)
  \/ \E empty \in SUBSET DOMAIN kvb.buffer_sizes_ : KVQuerySubmit(empty)
  \/ KVQueryResetUserBufferSizes
  \/ KVQueryFree

SpecKVB == Init /\ [][NextKVB]_vars

\* The life of one KVQuery object: inits, one after the other on the same
\* object, and the destructor.
MaxInits == 2
LifeAttributeLists ==
  {NoAttributes, [null |-> FALSE, names |-> <<"a1">>],
   [null |-> FALSE, names |-> <<"b">>]}
\* KVQuery::init on a KVQuery that may have been inited before: set_buffers
\* appends to the buffers_ and buffer_sizes_ the object holds.
KVQueryInitAgain(type, attributes, buffer_sizes, in) ==
  LET g == KVQuery_get_attribute_ids(type, attributes)
      b == set_buffers(kvKeys, g.ids, buffer_sizes, 0,
                       [buffers_ |-> kvb.buffers_,
                        buffer_sizes_ |-> kvb.buffer_sizes_], in.mallocOk)
  IN  /\ ~kvLife.destroyed
      /\ kvLife.inits < MaxInits
      /\ g.st = Ok => Len(buffer_sizes) = user_buffer_num(g.ids)
      /\ g.st # Ok => buffer_sizes = <<>>
      /\ kvb' = IF g.st # Ok
                THEN [kvb EXCEPT !.type_ = type, !.st = g.st,
                                 !.attributes = attributes, !.phase = "failed"]
                ELSE KVQuery_init_buffers(type, attributes, g.ids,
                       b @@ [user_buffer_sizes_ |-> buffer_sizes],
                       in.subarrayOk)
      /\ kvLife' = [kvLife EXCEPT !.inits = @ + 1]
      /\ UNCHANGED <<kvKeys, kvAdded, exceptKVLife>>
\* KVQuery::~KVQuery: when type_ is WRITE the last buffer is freed.  type_ is
\* not set by the constructor: on an object that was never inited it holds
\* any value.  The last of no buffers is no buffer of the program (0).
KVQuery_delete(buffers, type) ==
  IF type = WRITE
  THEN IF buffers = <<>> THEN {0} ELSE {Len(buffers)}
  ELSE {}
KVQueryDestroy(type) ==
  /\ ~kvLife.destroyed
  /\ kvb.type_ # "" => type = kvb.type_
  /\ kvLife' = [kvLife EXCEPT !.destroyed = TRUE,
                              !.freed = KVQuery_delete(kvb.buffers_, type),
                              !.buffers_ = kvb.buffers_]
  /\ UNCHANGED <<kvb, kvKeys, kvAdded, exceptKVLife>>
\* The client adds a key before the first init.
LifeKeysAdd(k) ==
  /\ kvLife.inits = 0
  /\ ~kvLife.destroyed
  /\ k.bytes = <<1, 0>>
  /\ KeysAdd(k)

NextKVLife ==
  \/ \E k \in AllKeys : LifeKeysAdd(k)
  \/ \E type \in {READ, WRITE} : \E attributes \in LifeAttributeLists :
     \E n \in 0..3 : \E in \in [mallocOk : BOOLEAN, subarrayOk : BOOLEAN] :
       KVQueryInitAgain(type, attributes, [k \in 1..n |-> 4], in)
  \/ \E type \in {READ, WRITE} : KVQueryDestroy(type)

SpecKVLife == Init /\ [][NextKVLife]_vars

(* ----------------------------- the callback ---------------------------- *)
\* The callback of a query records the status it finds the query in.
\* Query::async_process with the callback invoked before the status is set.
async_process_callback_before_status(w, callback_) ==
  IF w.st = Ok
  THEN IF callback_ THEN <<w.q.status_>> ELSE <<>>
  ELSE <<>>
\* Query::async_process, the invocations of the callback: w is the query after
\* read() or write(); when these returned Ok the status is set and then the
\* callback, if there is one, is invoked; it is not invoked after an error.
async_process_callback(w, callback_) ==
  IF w.st = Ok
  THEN IF callback_ THEN <<async_process_status(w).q.status_>> ELSE <<>>
  ELSE <<>>

\* ran: a submission was made; had: it was made with a callback; seen: the
\* statuses its invocations of the callback found.
NoCallback ==
  [callback_ |-> FALSE, ran |-> FALSE, had |-> FALSE, st |-> "", seen |-> <<>>]
\* Query::set_callback.
SetCallback(i, callback_) ==
  /\ queries[i].inited
  /\ cb.callback_ # callback_
  /\ cb' = [cb EXCEPT !.callback_ = callback_]
  /\ UNCHANGED <<coreVars, exceptCallback>>
\* A submission: r is the query after read() or write().
SubmittedCallback(i, q, batch, target, r) ==
  /\ SubmittedCore(i, q, batch, target, FALSE, async_process_status(r))
  /\ cb' = [cb EXCEPT !.ran = TRUE, !.had = cb.callback_, !.st = r.st,
                      !.seen = async_process_callback(r, cb.callback_)]
  /\ UNCHANGED exceptCallback
SubmitCallback(i) ==
  /\ queries[i].inited
  /\ is_write_mode(queries[i].mode_) /\ queries[i].fragments_ = <<>>
       => clock < MaxMs
  /\ \E batch \in (IF is_write_mode(queries[i].mode_)
                   THEN Batches(queries[i], dirs, Target(queries[i], clock))
                   ELSE {<<>>}) :
     \E cap \in (IF is_read_mode(queries[i].mode_) THEN 0..MaxBuf ELSE {0}) :
     \E in \in SubmitInputs(queries[i], TRUE) :
       SubmittedCallback(i, queries[i], batch, Target(queries[i], clock),
                         IF is_read_mode(queries[i].mode_)
                         THEN read(World(queries[i], dirs, clock), dense, cap, in)
                         ELSE write(World(queries[i], dirs, clock), batch, in))
\* Query::~Query; the next query of the client has no callback.
DestroyCallback(i) ==
  /\ queries[i].mode_ # ""
  /\ DestroyedCore(i, Query_delete(World(queries[i], dirs, clock)))
  /\ cb' = NoCallback
  /\ UNCHANGED exceptCallback

NextCallback ==
  \/ QueryInit("q1", QueryMode, Subarrays, TRUE)
  \/ \E callback_ \in BOOLEAN : SetCallback("q1", callback_)
  \/ SubmitCallback("q1")
  \/ DestroyCallback("q1")

SpecCallback == Init /\ [][NextCallback]_vars

(* ----------------------------- cancellation ---------------------------- *)
\* Clients read an array that holds no fragment, so that a submission runs
\* through Query::async_process and the loop of Query::read only.  A
\* submission takes time: it begins, the client may ask for its cancellation
\* while it runs, and it ends with what Query::async_process returns.  No
\* statement of Query::async_process or Query::read looks at a cancellation
\* request, so the whole of the call is taken at the end of the submission.
BeginSubmit(i) ==
  /\ queries[i].inited
  /\ ~cancel[i].running
  /\ cancel' = [cancel EXCEPT ![i] = [running |-> TRUE, flag |-> FALSE]]
  /\ UNCHANGED <<coreVars, exceptCancel>>
\* The client asks for the cancellation of the running submission.
CancelSubmit(i) ==
  /\ cancel[i].running
  /\ ~cancel[i].flag
  /\ cancel' = [cancel EXCEPT ![i].flag = TRUE]
  /\ UNCHANGED <<coreVars, exceptCancel>>
EndSubmit(i) ==
  /\ cancel[i].running
  /\ cancel' = [cancel EXCEPT ![i].running = FALSE]
  /\ \E cap \in 0..MaxBuf :
       SubmittedCore(i, queries[i], <<>>, Target(queries[i], clock), FALSE,
                     async_process(World(queries[i], dirs, clock),
                                   dense, <<>>, cap,
                                   [mac |-> "mac", fragOk |-> TRUE,
                                    writeOk |-> TRUE, readOk |-> TRUE]))
  /\ UNCHANGED exceptCancel
DestroyIdle(i) ==
  /\ ~cancel[i].running
  /\ Destroy(i)

NextCancel ==
  \E i \in QIds :
    \/ QueryInit(i, {READ, READ_SORTED_COL, READ_SORTED_ROW}, Subarrays, FALSE)
    \/ BeginSubmit(i)
    \/ CancelSubmit(i)
    \/ EndSubmit(i)
    \/ DestroyIdle(i)

SpecCancel == Init /\ [][NextCancel]_vars


(* ----------------------------- hdfs backend ---------------------------- *)
\* The paths of the name space below the root.
Paths == {<<"a">>, <<"a", "b">>, <<"c">>, <<"c", "b">>}
Root == <<>>
\* constants::max_write_bytes is INT_MAX; the model takes a small chunk size
\* so that buffers longer than one and than two chunks are written.
max_write_bytes == 2
MaxLength == 2 * max_write_bytes + 1
\* The program never looks at the bytes it writes.  Byte k of a buffer
\* carries the value k, so that a byte of a file tells which byte of the
\* buffer it was copied from.
Buffers == {[k \in 1..n |-> k] : n \in 0..MaxLength}
Parent(p) == SubSeq(p, 1, Len(p) - 1)
Below(p) == {x \in Paths : IsPrefixOf(p, x)}
Kind(f, p) == IF p = Root THEN "D" ELSE f[p].kind
NoEntry == [kind |-> "", data |-> <<>>]

\* libhdfs.  hdfsExists is 0 when the path exists; hdfsGetPathInfo is null
\* when it does not.
hdfsExists(f, p) == IF Kind(f, p) # "" THEN 0 ELSE -1
hdfsGetPathInfo(f, p) == [null |-> Kind(f, p) = "", mKind |-> Kind(f, p)]
\* A file on the way from the root to p (p included).
FileOnPath(f, p) == \E n \in 1..Len(p) : Kind(f, SubSeq(p, 1, n)) = "F"
WithParents(f, p) ==
  [x \in Paths |-> IF IsPrefixOf(x, p) /\ x # p THEN [kind |-> "D", data |-> <<>>]
                   ELSE f[x]]
\* hdfsCreateDirectory makes the directory and its missing parents.
hdfsCreateDirectory(f, p) ==
  IF FileOnPath(f, p) THEN [ret |-> -1, fs |-> f]
  ELSE [ret |-> 0,
        fs |-> [WithParents(f, p) EXCEPT ![p] = [kind |-> "D", data |-> <<>>]]]
\* hdfsDelete removes the path and, when recursive, what is below it; a
\* directory that is not empty is not removed otherwise.
hdfsDelete(f, p, recursive) ==
  IF Kind(f, p) = "" THEN [ret |-> -1, fs |-> f]
  ELSE IF recursive = 0 /\ \E x \in Below(p) : x # p /\ Kind(f, x) # ""
  THEN [ret |-> -1, fs |-> f]
  ELSE [ret |-> 0, fs |-> [x \in Paths |-> IF x \in Below(p) THEN NoEntry ELSE f[x]]]
\* Where hdfsRename puts the source: at the new path, or below it when the
\* new path is a directory.
RenameTarget(f, old, new) ==
  IF Kind(f, new) = "D" THEN new \o <<old[Len(old)]>> ELSE new
Moved(old, target, x) == target \o SubSeq(x, Len(old) + 1, Len(x))
hdfsRename(f, old, new) ==
  LET target == RenameTarget(f, old, new) IN
  IF \/ Kind(f, old) = ""
     \/ IsPrefixOf(old, target)
     \/ Kind(f, Parent(target)) # "D"
     \/ Kind(f, target) # ""
  THEN [ret |-> -1, fs |-> f]
  ELSE [ret |-> 0,
        fs |-> [x \in Paths |->
                  IF IsPrefixOf(target, x)
                  THEN IF Moved(target, old, x) \in Paths
                       THEN f[Moved(target, old, x)] ELSE NoEntry
                  ELSE IF x \in Below(old) THEN NoEntry ELSE f[x]]]
\* hdfsOpenFile for writing creates the file, and its missing parents, or
\* empties the file that is there.
hdfsOpenFile(f, p, ok) ==
  IF ~ok \/ Kind(f, p) = "D" \/ FileOnPath(f, Parent(p))
  THEN [null |-> TRUE, fs |-> f]
  ELSE [null |-> FALSE,
        fs |-> [WithParents(f, p) EXCEPT ![p] = [kind |-> "F", data |-> <<>>]]]
\* hdfsWrite appends the bytes to the open file and returns their number.
hdfsWrite(f, p, bytes, ok) ==
  IF ok THEN [ret |-> Len(bytes), fs |-> [f EXCEPT ![p].data = @ \o bytes]]
  ELSE [ret |-> -1, fs |-> f]

\* hdfs::is_dir with the test of hdfsExists turned around.
hdfs_is_dir_if_exists_nonzero(f, p) ==
  IF hdfsExists(f, p) # 0
  THEN LET fileInfo == hdfsGetPathInfo(f, p)
       IN  IF fileInfo.null THEN FALSE ELSE fileInfo.mKind = "D"
  ELSE FALSE
\* hdfs::is_dir
hdfs_is_dir(f, p) ==
  IF hdfsExists(f, p) = 0
  THEN LET fileInfo == hdfsGetPathInfo(f, p)
       IN  IF fileInfo.null THEN FALSE ELSE fileInfo.mKind = "D"
  ELSE FALSE
\* hdfs::is_file
hdfs_is_file(f, p) ==
  IF hdfsExists(f, p) = 0
  THEN LET fileInfo == hdfsGetPathInfo(f, p)
       IN  IF fileInfo.null THEN FALSE ELSE fileInfo.mKind = "F"
  ELSE FALSE
StatusOf(r) == [st |-> IF r.ret < 0 THEN IOError ELSE Ok, fs |-> r.fs]
\* hdfs::create_dir
hdfs_create_dir(f, p) ==
  IF hdfs_is_dir(f, p) THEN [st |-> IOError, fs |-> f]
  ELSE StatusOf(hdfsCreateDirectory(f, p))
\* hdfs::delete_dir
hdfs_delete_dir(f, p) == StatusOf(hdfsDelete(f, p, 1))
\* hdfs::move_dir
hdfs_move_dir(f, old_path, new_path) == StatusOf(hdfsRename(f, old_path, new_path))
\* hdfs::create_file
hdfs_create_file(f, p, in) ==
  LET writeFile == hdfsOpenFile(f, p, in.openOk) IN
  IF writeFile.null THEN [st |-> IOError, fs |-> f]
  ELSE [st |-> IF in.closeOk THEN Ok ELSE IOError, fs |-> writeFile.fs]
\* hdfs::delete_file
hdfs_delete_file(f, p) == StatusOf(hdfsDelete(f, p, 0))
\* The loop of hdfs::write_to_file: one hdfsWrite of curSize bytes per round,
\* each from the start of the buffer, then the close.
RECURSIVE write_chunks(_, _, _, _, _, _)
write_chunks(f, p, buffer, nrRemaining, round, in) ==
  IF nrRemaining > 0
  THEN LET curSize == IF max_write_bytes < nrRemaining
                      THEN max_write_bytes ELSE nrRemaining
           written == hdfsWrite(f, p, SubSeq(buffer, 1, curSize),
                                in.writeFailAt # round)
       IN  IF written.ret # curSize THEN [st |-> IOError, fs |-> written.fs]
           ELSE write_chunks(written.fs, p, buffer,
                             nrRemaining - max_write_bytes, round + 1, in)
  ELSE [st |-> IF in.closeOk THEN Ok ELSE IOError, fs |-> f]
\* hdfs::write_to_file
hdfs_write_to_file(f, p, buffer, length, in) ==
  LET writeFile == hdfsOpenFile(f, p, in.openOk) IN
  IF writeFile.null THEN [st |-> IOError, fs |-> f]
  ELSE write_chunks(writeFile.fs, p, buffer, length, 1, in)

\* What the environment decides in a call: whether the file opens, which
\* hdfsWrite fails (0: none) and whether the file closes.
HdfsInputs == [openOk : BOOLEAN, writeFailAt : 0..1, closeOk : BOOLEAN]
Called(op, p, buffer, r) ==
  /\ fs' = r.fs
  /\ lastOp' = [op |-> op, path |-> p, st |-> r.st, buffer |-> buffer]
HdfsCreateDir(p) ==
  /\ Called("create_dir", p, <<>>, hdfs_create_dir(fs, p))
  /\ UNCHANGED exceptHdfs
HdfsDeleteDir(p) ==
  /\ Called("delete_dir", p, <<>>, hdfs_delete_dir(fs, p))
  /\ UNCHANGED exceptHdfs
\* The directory and what is below it land on paths of the model.
HdfsMoveDir(old, new) ==
  /\ \A x \in Below(old) :
       Kind(fs, x) # "" =>
         Moved(old, RenameTarget(fs, old, new), x) \in Paths
  /\ Called("move_dir", old, <<>>, hdfs_move_dir(fs, old, new))
  /\ UNCHANGED exceptHdfs
HdfsCreateFile(p) ==
  /\ \E in \in HdfsInputs :
       in.writeFailAt = 0 /\
         Called("create_file", p, <<>>, hdfs_create_file(fs, p, in))
  /\ UNCHANGED exceptHdfs
HdfsDeleteFile(p) ==
  /\ Called("delete_file", p, <<>>, hdfs_delete_file(fs, p))
  /\ UNCHANGED exceptHdfs
HdfsWriteToFile(p) ==
  /\ \E buffer \in Buffers : \E in \in HdfsInputs :
       Called("write_to_file", p, buffer,
              hdfs_write_to_file(fs, p, buffer, Len(buffer), in))
  /\ UNCHANGED exceptHdfs

NextHdfs ==
  \E p \in Paths :
    \/ HdfsCreateDir(p)
    \/ HdfsDeleteDir(p)
    \/ \E new \in Paths : HdfsMoveDir(p, new)
    \/ HdfsCreateFile(p)
    \/ HdfsDeleteFile(p)
    \/ HdfsWriteToFile(p)

SpecHdfs == Init /\ [][NextHdfs]_vars


\* hdfs::read_from_file, the revision that reads in rounds.  The file is
\* opened for reading and the position is set to the offset; every round asks
\* hdfsRead for the bytes that are still to be read, at most INT_MAX of them,
\* and goes on while bytes are still to be read.
INT_MAX == 2
NoRead ==
  [pc |-> "idle", path |-> <<>>, offset |-> 0, length |-> 0,
   bytes_to_read |-> 0, pos |-> 0, buffer |-> <<>>, readFailAt |-> 0,
   round |-> 0, st |-> ""]
\* libhdfs: a file opens for reading when it is there; hdfsSeek fails beyond
\* the end of the file; hdfsRead returns the bytes from the position on, at
\* least one and at most nbytes of them, and 0 at the end of the file.
hdfsOpenFileRead(f, p, ok) == ok /\ Kind(f, p) = "F"
hdfsSeek(f, p, offset, ok) == IF ok /\ offset <= Len(f[p].data) THEN 0 ELSE -1
hdfsReadCounts(f, p, pos, nbytes) ==
  IF nbytes = 0 \/ pos >= Len(f[p].data) THEN {0}
  ELSE 1..(IF nbytes < Len(f[p].data) - pos THEN nbytes
           ELSE Len(f[p].data) - pos)
\* What the environment decides in a call: whether the file opens, whether
\* the seek succeeds and the round in which hdfsRead fails (0: none).
\* Offsets and lengths go up to one more than a round reads.
ReadInputs == [openOk : BOOLEAN, seekOk : BOOLEAN, readFailAt : 0..2]
\* The call up to the loop.
ReadFromFileCall(p, offset, length, in) ==
  /\ rd.pc \in {"idle", "done"}
  /\ rd' = IF ~hdfsOpenFileRead(fs, p, in.openOk)
              \/ hdfsSeek(fs, p, offset, in.seekOk) < 0
           THEN [NoRead EXCEPT !.pc = "done", !.path = p, !.offset = offset,
                               !.length = length, !.st = IOError]
           ELSE [NoRead EXCEPT !.pc = "loop", !.path = p, !.offset = offset,
                               !.length = length, !.bytes_to_read = length,
                               !.pos = offset, !.readFailAt = in.readFailAt,
                               !.round = 1]
  /\ UNCHANGED exceptRead
\* One round of the loop: hdfsRead of nbytes bytes, which returns bytes_read.
\* The rounds are counted up to the one in which hdfsRead is to fail.
ReadFromFileRound(bytes_read) ==
  /\ rd.pc = "loop"
  /\ LET nbytes == IF rd.bytes_to_read <= INT_MAX THEN rd.bytes_to_read
                   ELSE INT_MAX
     IN  IF rd.round = rd.readFailAt
         THEN /\ bytes_read = -1
              /\ rd' = [rd EXCEPT !.pc = "done", !.st = IOError]
         ELSE /\ bytes_read \in hdfsReadCounts(fs, rd.path, rd.pos, nbytes)
              /\ rd' = [rd EXCEPT
                          !.bytes_to_read = @ - bytes_read,
                          !.buffer = @ \o SubSeq(fs[rd.path].data, rd.pos + 1,
                                                 rd.pos + bytes_read),
                          !.pos = @ + bytes_read,
                          !.round = IF @ < rd.readFailAt THEN @ + 1 ELSE @,
                          !.pc = IF rd.bytes_to_read - bytes_read > 0
                                 THEN "loop" ELSE "close"]
  /\ UNCHANGED exceptRead
\* After the loop the file is closed.
ReadFromFileClose(closeOk) ==
  /\ rd.pc = "close"
  /\ rd' = [rd EXCEPT !.pc = "done", !.st = IF closeOk THEN Ok ELSE IOError]
  /\ UNCHANGED exceptRead
\* A client writes the file <<"c">>, while no read is running.
ReadWrites ==
  /\ rd.pc \in {"idle", "done"}
  /\ HdfsWriteToFile(<<"c">>)

NextRead ==
  \/ ReadWrites
  \/ \E p \in {<<"c">>, <<"a">>} : \E offset \in 0..(INT_MAX + 1) :
     \E length \in 0..(INT_MAX + 1) : \E in \in ReadInputs :
       ReadFromFileCall(p, offset, length, in)
  \/ \E bytes_read \in -1..INT_MAX : ReadFromFileRound(bytes_read)
  \/ \E closeOk \in BOOLEAN : ReadFromFileClose(closeOk)

\* The program goes on: a round of the loop that can be taken is taken.
SpecRead ==
  /\ Init
  /\ [][NextRead]_vars
  /\ WF_vars(\E bytes_read \in -1..INT_MAX : ReadFromFileRound(bytes_read))
  /\ WF_vars(\E closeOk \in BOOLEAN : ReadFromFileClose(closeOk))


(* ------------------------------ properties ----------------------------- *)
\* The queries that were initialized to read.
Readers == {i \in QIds : queries[i].inited /\ is_read_mode(queries[i].mode_)}
\* The queries that write.
Writers == {i \in QIds : is_write_mode(queries[i].mode_)}
\* The names of the fragments a query holds, in the order it holds them.
FragmentNames(q) == [k \in 1..Len(q.fragments_) |-> q.fragments_[k].name]
CoordsOf(cells) == {cells[k][1] : k \in 1..Len(cells)}
ValueAt(cells, c) == cells[CHOOSE k \in 1..Len(cells) : cells[k][1] = c][2]
IsPrefix(s, t) == Len(s) <= Len(t) /\ SubSeq(t, 1, Len(s)) = s
\* A read that came in pieces: submissions before the last one delivered
\* cells, and the last one delivered cells too.
Resumed(i) ==
  /\ queries[i].buffers # <<>>
  /\ Len(hist[i].delivered) > Len(queries[i].buffers)

\* C1: after a submission the status of the query is COMPLETED, OVERFLOWED or
\* FAILED; it is FAILED exactly when the read or write returned an error, and
\* OVERFLOWED exactly when it succeeded in a read mode and the read state of
\* the mode reports overflow; it is COMPLETED in every other case.
C1_StatusAfterSubmission ==
  \A i \in QIds :
    LET q == queries[i] IN
    q.mode_ # "" /\ hist[i].ret # "" =>
      /\ q.status_ \in {COMPLETED, OVERFLOWED, FAILED}
      /\ q.status_ = FAILED <=> hist[i].ret # Ok
      /\ q.status_ = OVERFLOWED <=>
           (hist[i].ret = Ok /\ is_read_mode(q.mode_) /\ Query_overflow(q))
      /\ q.status_ = COMPLETED <=>
           (hist[i].ret = Ok /\ ~(is_read_mode(q.mode_) /\ Query_overflow(q)))

\* A sorted read that overflowed.
C1_Witness ==
  \E i \in QIds :
    /\ queries[i].mode_ \in {READ_SORTED_COL, READ_SORTED_ROW}
    /\ hist[i].ret = Ok
    /\ queries[i].status_ = OVERFLOWED

\* What one submission with a buffer for the whole domain delivers to a query
\* that has not read yet.
OneSubmission(i) ==
  LET q == queries[i]
      fresh == [q EXCEPT !.array_read_state_ = NewReadState,
                         !.array_sorted_read_state_ =
                           IF @.alloc THEN NewSortedReadState ELSE @]
  IN  read(World(fresh, dirs, clock), dense, MaxCoord, [readOk |-> TRUE]).q.buffers

\* C2: the cells a read query delivered over its submissions, one after the
\* other, are the first cells of what one submission with a large enough
\* buffer delivers, and are all of them when the query is COMPLETED.
C2_OverflowResumable ==
  \A i \in Readers :
    hist[i].clean /\ hist[i].ret # "" =>
      /\ IsPrefix(hist[i].delivered, OneSubmission(i))
      /\ queries[i].status_ = COMPLETED => hist[i].delivered = OneSubmission(i)

\* A read completed in several submissions.
C2_Witness ==
  \E i \in Readers :
    hist[i].clean /\ queries[i].status_ = COMPLETED /\ Resumed(i)

\* The fragments that hold coordinate c, by timestamp, as the clients wrote
\* them.
WrittenAt(c) == {ms \in 1..MaxMs : submitted[ms][c] # 0}
\* What a full-domain read is to return: per coordinate the value of the
\* latest write that holds it, else the empty value (dense) or no cell.
RECURSIVE ExpectedFrom(_)
ExpectedFrom(c) ==
  IF c > MaxCoord THEN <<>>
  ELSE (IF WrittenAt(c) # {} THEN <<<<c, submitted[Max(WrittenAt(c))][c]>>>>
        ELSE IF dense THEN <<<<c, empty_int32>>>>
        ELSE <<>>) \o ExpectedFrom(c + 1)
\* A completed read of the whole domain by a query created after the writes.
FullRead(i) ==
  /\ i \in Readers
  /\ queries[i].subarray_ = <<1, MaxCoord>>
  /\ hist[i].clean
  /\ hist[i].ret = Ok
  /\ queries[i].status_ = COMPLETED

Holders(i, c) ==
  {k \in 1..Len(hist[i].passed) : c \in CoordsOf(DirCells(dirs, hist[i].passed[k]))}

\* C4: a read emits a coordinate once at most, and once when it is COMPLETED
\* and a fragment holds the coordinate in the subarray; the values are those
\* of the latest of the fragments that hold it, in the order passed to init.
C4_LatestFragmentWins ==
  \A i \in Readers :
    hist[i].clean =>
      LET out == hist[i].delivered IN
      /\ \A j, k \in 1..Len(out) : out[j][1] = out[k][1] => j = k
      /\ \A k \in 1..Len(out) :
           Holders(i, out[k][1]) # {} =>
             out[k][2] = ValueAt(DirCells(dirs, hist[i].passed[Max(Holders(i, out[k][1]))]),
                                 out[k][1])
      /\ queries[i].status_ = COMPLETED /\ hist[i].ret = Ok =>
           \A c \in Coords :
             InSubarray(c, queries[i].subarray_) /\ Holders(i, c) # {} =>
               c \in CoordsOf(out)

\* A read emitted a coordinate that two fragments hold.
C4_Witness ==
  \E i \in Readers :
    /\ hist[i].clean
    /\ \E k \in 1..Len(hist[i].delivered) :
         Cardinality(Holders(i, hist[i].delivered[k][1])) >= 2

\* C5: the cells a global-order read emits, within a submission and across its
\* resumed submissions, never go back in the global order.
C5_GlobalOrderMonotone ==
  \A i \in Readers :
    queries[i].mode_ = READ /\ hist[i].clean =>
      \A k \in 1..(Len(hist[i].delivered) - 1) :
        hist[i].delivered[k][1] <= hist[i].delivered[k + 1][1]

\* A global-order read that emitted cells in several submissions.
C5_Witness ==
  \E i \in Readers : queries[i].mode_ = READ /\ hist[i].clean /\ Resumed(i)

\* C6: the fragments a read query reads from are the fragments of the list
\* passed to init, in its order, at every submission; the query emits no cell
\* of a fragment that is not in the list.
C6_SnapshotRead ==
  \A i \in Readers :
    /\ queries[i].fragment_metadata_ = hist[i].passed
    /\ FragmentNames(queries[i]) = hist[i].passed
    /\ \A k \in 1..Len(hist[i].delivered) :
         \/ hist[i].delivered[k][2] = empty_int32
         \/ <<VisiblePrefix, hist[i].delivered[k][2]>> \in Range(hist[i].passed)

\* A read query emitted cells in a submission made after a writer committed a
\* fragment that the list passed to init does not hold.
C6_Witness ==
  \E i \in Readers :
    /\ hist[i].late
    /\ queries[i].buffers # <<>>
    /\ VisibleFragments(dirs) # hist[i].passed

\* The timestamps of the fragments that write queries hold: the fragments
\* that are not finalized.
Unfinalized ==
  UNION {{queries[j].fragments_[k].name[2] : k \in 1..Len(queries[j].fragments_)} :
           j \in Writers}

\* C7: a read query holds no fragment, and has emitted no cell of a fragment,
\* that a writer has not finalized.
C7_NoUnfinalizedFragmentRead ==
  \A i \in Readers :
    /\ \A k \in 1..Len(queries[i].fragments_) :
         queries[i].fragments_[k].name[2] \notin Unfinalized
    /\ \A k \in 1..Len(hist[i].delivered) :
         hist[i].delivered[k][2] \notin Unfinalized

\* A read query emitted cells while a writer holds a fragment with cells.
C7_Witness ==
  \E i \in Readers, j \in Writers :
    /\ queries[i].buffers # <<>>
    /\ \E k \in 1..Len(queries[j].fragments_) :
         /\ is_dir(dirs, queries[j].fragments_[k].name)
         /\ DirCells(dirs, queries[j].fragments_[k].name) # <<>>

\* C8 as stated: the fragment of a write query whose submission failed is
\* never finalized or committed afterwards, by a later submission or by the
\* destruction of the query.
C8_FailedFragmentNeverCommitted ==
  [][\A i \in QIds :
       LET q == queries[i] IN
       is_write_mode(q.mode_) /\ q.status_ = FAILED =>
         \A k \in 1..Len(q.fragments_) :
           q.fragments_[k].name[2] \notin VisibleMs(dirs') \ VisibleMs(dirs)]_vars

C10_EmptyWriteNoFragment ==
  [][\A i \in QIds :
       /\ is_write_mode(queries[i].mode_) \/ is_write_mode(queries'[i].mode_)
       /\ ~hist[i].gotCells
       /\ ~hist'[i].gotCells
       => dirs' = dirs]_vars

\* A write query whose submission of an empty batch succeeded and finalized
\* its fragment.
C10_Witness ==
  \E i \in Writers :
    /\ queries[i].mode_ # WRITE
    /\ hist[i].ret = Ok
    /\ ~hist[i].gotCells
    /\ queries[i].fragments_ = <<>>

\* C11: any two fragment creations for the same array, by any two writers and
\* in any interleaving (other host, other thread, the same thread, the same
\* millisecond), obtain distinct fragment names.
C11_DistinctFragmentNames ==
  \A j, k \in 1..Len(created) :
    j # k /\ created[j].name # <<>> => created[j].name # created[k].name

\* The cells of the example array a query selects.
Selected(q) == {c \in 1..ExampleCells : InSubarray(c, q.subarray_)}
\* What the submissions of the example use and return.
ExampleUsed == <<ExampleBuffer, ExampleBuffer, 8>>
ExampleStatus == <<OVERFLOWED, OVERFLOWED, COMPLETED>>
Productive(tr) == {k \in 1..Len(tr) : tr[k].used > 0}
SubmissionDelivers(given, st, old, all, q, tr) ==
  /\ given >= attr_size =>
       /\ Len(all) > Len(old)
       /\ \A k \in (Len(old) + 1)..Len(all) : all[k][1] \notin CoordsOf(old)
  /\ st \in {OVERFLOWED, COMPLETED}
  /\ st = COMPLETED <=> CoordsOf(all) = Selected(q)
  /\ Cardinality(Productive(tr)) <= Cardinality(Selected(q))
  /\ (q.subarray_ = <<1, ExampleCells>> /\
      \A k \in 1..Len(tr) : tr[k].given = ExampleBuffer) =>
       /\ Len(tr) <= Len(ExampleUsed)
       /\ \A k \in 1..Len(tr) :
            tr[k].used = ExampleUsed[k] /\ tr[k].st = ExampleStatus[k]
       /\ all = SubSeq(ExampleFragment.cells, 1, Len(all))

\* C12: a read submission made with a buffer that has room for a cell
\* delivers at least one cell, and only cells no earlier submission of the
\* query delivered; the query is COMPLETED exactly when every selected cell
\* was delivered, after at most as many delivering submissions as there are
\* selected cells; 8 cells of 4 bytes read with a 12-byte buffer take three
\* submissions that use 12, 12 and 8 bytes and return OVERFLOWED, OVERFLOWED
\* and COMPLETED.
C12_ProgressAfterOverflow ==
  [][trace' # trace =>
       SubmissionDelivers(trace'[Len(trace')].given, trace'[Len(trace')].st,
                          hist["q1"].delivered, hist'["q1"].delivered,
                          queries'["q1"], trace')]_vars
C12_Witness ==
  /\ Len(trace) = 3
  /\ \A k \in 1..3 : trace[k].given = ExampleBuffer /\ trace[k].used = ExampleUsed[k]
  /\ queries["q1"].status_ = COMPLETED
  /\ queries["q1"].subarray_ = <<1, ExampleCells>>

\* The submissions of the unordered writer that hold coordinate c.
WritesAt(c) == {n \in 1..Len(writes) : c \in CoordsOf(writes[n])}

\* C13: a read made after the submissions of an unordered write query returns,
\* for every coordinate they hold, the value of the latest submission that
\* holds it.
C13_LaterSubmissionWins ==
  FullRead("q2") =>
    \A c \in Coords :
      WritesAt(c) # {} => <<c, Max(WritesAt(c))>> \in Range(hist["q2"].delivered)

\* The digest of one key: MD5 of its type tag, its size and its bytes.
DigestOf(k) == MD5(<<k.type>> \o Bytes64(Len(k.bytes)) \o k.bytes)
DistinctKeys(put) ==
  \A i, j \in 1..Len(put) : i # j => put[i].key # put[j].key
DistinctDigests(put) ==
  \A i, j \in 1..Len(put) : i # j => DigestOf(put[i].key) # DigestOf(put[j].key)
\* A get of a key of the bulk put returned the values put for the key.
GetReturnsPut ==
  \A i \in 1..Len(kvPut) :
    kvPut[i].key = kvLast.key => kvLast.values = {kvPut[i].value}

\* C14 as stated: after a bulk put of pairs with pairwise distinct keys, a
\* point get of a key of the batch returns exactly the values put for it.
C14_RoundTrip ==
  kvLast.got /\ DistinctKeys(kvPut) => GetReturnsPut

\* C14, amended: the same for a batch whose keys have pairwise distinct
\* digests; two distinct keys with the same digest are one cell of the array.
C14_RoundTripDistinctDigests ==
  kvLast.got /\ DistinctDigests(kvPut) => GetReturnsPut

\* A get of the second key of a batch of two, which returned its value.
C14_Witness ==
  /\ kvLast.got
  /\ Len(kvPut) = 2
  /\ DistinctDigests(kvPut)
  /\ kvLast.key = kvPut[2].key
  /\ kvLast.values = {2}

\* The Keys object that holds key k alone.
SingleKey(k) == add_key(Keys_new, k.bytes, k.type, Len(k.bytes))

\* C15: the coordinates a write computes for a key, at any position of the
\* batch, are the digest (d1, d2) of the key's type tag, size and bytes, and a
\* read of the key alone computes the subarray [d1, d1] x [d2, d2].
C15_WriteCoordsAreReadPoint ==
  kvq.type_ = WRITE /\ kvq.st = Ok =>
    \A i \in 1..Len(kvAdded) :
      /\ kvq.query_.cells[i].coords = DigestOf(kvAdded[i])
      /\ compute_subarray(SingleKey(kvAdded[i]), TRUE) =
           [st |-> Ok,
            subarray |-> << kvq.query_.cells[i].coords[1],
                            kvq.query_.cells[i].coords[1],
                            kvq.query_.cells[i].coords[2],
                            kvq.query_.cells[i].coords[2] >>]

\* A write of two keys of different sizes.
C15_Witness ==
  /\ kvq.type_ = WRITE
  /\ kvq.st = Ok
  /\ Len(kvAdded) = 2
  /\ Len(kvAdded[1].bytes) # Len(kvAdded[2].bytes)

\* C18: the init of a read whose Keys object holds no key or more than one
\* returns a KVQueryError; no underlying query is created, none is submitted.
C18_ReadNeedsOneKey ==
  kvq.type_ = READ /\ kvKeys.key_num_ # 1 =>
    /\ kvq.st = KVQueryError
    /\ ~kvq.query_.alloc
    /\ ~kvq.submitted

\* A read with two keys was refused.
C18_Witness ==
  /\ kvq.type_ = READ
  /\ kvKeys.key_num_ = 2
  /\ kvq.st = KVQueryError

\* An attribute list with a name that is null, too long, not an attribute of
\* the schema, or there twice.
InvalidAttributes(attributes) ==
  /\ ~attributes.null
  /\ \/ has_duplicates(attributes.names)
     \/ \E i \in 1..Len(attributes.names) :
          \/ attributes.names[i].null
          \/ Len(attributes.names[i].chars) > name_max_len
          \/ attributes.names[i] \notin Range(ArraySchema_attributes)
\* The step is the init of query i.
IsInit(i) == queries[i].mode_ = "" /\ queries'[i].mode_ # ""

\* C16: an init with an invalid attribute list returns an error; the query
\* holds no fragment after it and the directories of the array are as before.
C16_InvalidAttributesRejected ==
  [][IsInit("q1") /\ InvalidAttributes(lastInit'.attributes) =>
       /\ lastInit'.st # Ok
       /\ ~queries'["q1"].inited
       /\ queries'["q1"].fragments_ = <<>>
       /\ dirs' = dirs]_vars

\* A read of an array that holds a fragment was refused for a name given twice.
C16_Witness ==
  /\ lastInit.attributes = Attributes(<<a1, a1>>)
  /\ lastInit.st = QueryError
  /\ queries["q1"].mode_ = READ
  /\ VisibleFragments(dirs) # <<>>

\* C17: an init with a subarray that is not contained in the domain returns
\* an error, in every mode, and the query holds no fragment after it.
C17_SubarrayOutOfDomainRejected ==
  [][IsInit("q1") /\ ~InDomain(lastInit'.subarray) =>
       /\ lastInit'.st # Ok
       /\ queries'["q1"].fragments_ = <<>>]_vars

\* C20: after a read submission of a query that holds no fragment the
\* submission has succeeded, no cell was delivered and the size of every
\* buffer of the query is 0.
C20_NoFragmentsZeroSizes ==
  \A i \in Readers :
    queries[i].fragments_ = <<>> /\ hist[i].ret # "" =>
      /\ hist[i].ret = Ok
      /\ queries[i].buffers = <<>>
      /\ \A b \in DOMAIN queries[i].buffer_sizes_ : queries[i].buffer_sizes_[b] = 0

\* The names the specification reserves.
ReservedNames ==
  {"__coords", "__key", "__key_type", "__key_dim_1", "__key_dim_2"}

\* C19: adding an attribute with a reserved name to a key-value schema is an
\* error and leaves the attribute list as it was; the names of the user
\* attributes are never reserved names.
C19_ReservedNamesRejected ==
  /\ kvMeta.last.called /\ kvMeta.last.name \in ReservedNames =>
       /\ kvMeta.last.st # Ok
       /\ kvMeta.attributes_ = kvMeta.last.before
  /\ \A i \in 1..Len(kvMeta.attributes_) :
       kvMeta.attributes_[i] \notin ReservedNames

\* A schema with a user attribute refused the coordinates name.
C19_Witness ==
  /\ kvMeta.last.called
  /\ kvMeta.last.name = "__coords"
  /\ kvMeta.last.st = KVMetadataError
  /\ kvMeta.attributes_ = <<"a1">>

\* C21: a query in a write mode never has the status OVERFLOWED, and
\* Query::overflow is false for it, whatever was submitted.
C21_OverflowOnlyForReads ==
  \A i \in QIds :
    is_write_mode(queries[i].mode_) =>
      /\ queries[i].status_ # OVERFLOWED
      /\ ~Query_overflow(queries[i])

\* A write query whose submission of cells succeeded.
C21_Witness ==
  \E i \in QIds :
    /\ is_write_mode(queries[i].mode_)
    /\ hist[i].ret = Ok
    /\ hist[i].gotCells
    /\ queries[i].status_ = COMPLETED

\* C22: a submission whose cancellation was asked while it ran does not end
\* COMPLETED or OVERFLOWED: the query is FAILED and the submission returned
\* an error.
C22_CancelledSubmissionFails ==
  \A i \in QIds :
    (~cancel[i].running /\ cancel[i].flag /\ hist[i].ret # "") =>
      /\ queries[i].status_ = FAILED
      /\ hist[i].ret # Ok

\* The last call removed the directory p: it deleted or moved p or a
\* directory above p.
TakenAway(p) ==
  /\ lastOp'.op \in {"delete_dir", "delete_file", "move_dir"}
  /\ lastOp'.st = Ok
  /\ IsPrefixOf(lastOp'.path, p)

\* C23: after create_dir(p) returned Ok, is_dir(p) is true, and is_dir(p)
\* stays true over every call that does not delete or move the directory.
C23_CreatedDirIsDir ==
  [][/\ lastOp'.op = "create_dir" /\ lastOp'.st = Ok =>
          hdfs_is_dir(fs', lastOp'.path)
     /\ \A p \in Paths :
          hdfs_is_dir(fs, p) /\ ~TakenAway(p) => hdfs_is_dir(fs', p)]_vars

\* A directory was created, and it is still one after a file was written
\* below it.
C23_Witness ==
  /\ lastOp.op = "write_to_file"
  /\ lastOp.st = Ok
  /\ lastOp.path = <<"a", "b">>
  /\ hdfs_is_dir(fs, <<"a">>)
  /\ hdfs_is_dir(fs, <<"c">>)

\* C24: after write_to_file(path, buffer, length) returned Ok, the file holds
\* exactly the bytes of the buffer, in order, whatever the length.
C24_WriteToFileWritesBuffer ==
  lastOp.op = "write_to_file" /\ lastOp.st = Ok =>
    /\ hdfs_is_file(fs, lastOp.path)
    /\ fs[lastOp.path].data = lastOp.buffer

\* The step is a submission of the write query i that succeeded.
WriteSubmitted(i) ==
  /\ is_write_mode(queries[i].mode_)
  /\ queries[i].inited
  /\ queries'[i].mode_ = queries[i].mode_
  /\ hist'[i].ret = Ok
\* The directories that are not sealed.
HiddenDirs(ds) == {d \in ds : d.name[1] = HiddenPrefix}

RECURSIVE SizesOf(_, _)
SizesOf(added, n) ==
  IF n = 0 THEN 0 ELSE Len(added[n].bytes) + SizesOf(added, n - 1)
RECURSIVE BytesOfKeys(_, _)
BytesOfKeys(added, n) ==
  IF n = 0 THEN <<>> ELSE BytesOfKeys(added, n - 1) \o added[n].bytes
\* The size KVQuery derives for key i (from 1) from the offsets.
DerivedSize(K, i) ==
  IF i # K.key_num_ THEN K.keys_[i + 1] - K.keys_[i]
  ELSE Len(K.keys_var_) - K.keys_[i]

\* C30: after add_key calls, key_num is the number of calls, there is one
\* offset per key, the first is 0 and the offset of a key is the sum of the
\* sizes of the keys before it, the values stream is the bytes of the keys in
\* the order they were added, and the size derived for a key from the offsets
\* is the size it was added with.
C30_KeysStreams ==
  LET n == Len(kvAdded) IN
  /\ kvKeys.key_num_ = n
  /\ Len(kvKeys.keys_) = n
  /\ Len(kvKeys.types_) = n
  /\ n > 0 => kvKeys.keys_[1] = 0
  /\ \A i \in 1..n :
       /\ kvKeys.keys_[i] = SizesOf(kvAdded, i - 1)
       /\ kvKeys.types_[i] = kvAdded[i].type
       /\ DerivedSize(kvKeys, i) = Len(kvAdded[i].bytes)
  /\ kvKeys.keys_var_ = BytesOfKeys(kvAdded, n)

\* Three keys of different sizes, the empty key in the middle.
C30_Witness ==
  /\ Len(kvAdded) = 3
  /\ kvAdded[1].bytes = <<1, 0>>
  /\ kvAdded[2].bytes = <<>>
  /\ kvAdded[3].bytes = <<1>>
  /\ kvKeys.keys_ = <<0, 2, 2>>

\* The number of buffers of an attribute, of the first j - 1 attributes of a
\* list, and of those of them that are the caller's.
BufferNum(name) == IF name \in {"a2", key_attr_name} THEN 2 ELSE 1
RECURSIVE BuffersBefore(_, _)
BuffersBefore(names, j) ==
  IF j <= 1 THEN 0
  ELSE BuffersBefore(names, j - 1) + BufferNum(names[j - 1])
RECURSIVE UserBuffersBefore(_, _)
UserBuffersBefore(names, j) ==
  IF j <= 1 THEN 0
  ELSE UserBuffersBefore(names, j - 1) +
       (IF reserved_name(names[j - 1]) THEN 0 ELSE BufferNum(names[j - 1]))
\* The buffers of attribute j of the underlying query are what they are to be.
AttributeBuffers(j) ==
  LET o == BuffersBefore(kvb.names, j)
      u == UserBuffersBefore(kvb.names, j)
      B == kvb.buffers_
      S == kvb.buffer_sizes_
  IN  IF kvb.names[j] = key_attr_name
      THEN /\ B[o + 1].owner = "keys_" /\ B[o + 1].data = kvKeys.keys_
           /\ B[o + 2].owner = "keys_var_" /\ B[o + 2].data = kvKeys.keys_var_
      ELSE IF kvb.names[j] = key_type_attr_name
      THEN B[o + 1].owner = "types_" /\ B[o + 1].data = kvKeys.types_
      ELSE IF kvb.names[j] = "__coords"
      THEN B[o + 1].owner = "coords" /\ S[o + 1] = kvKeys.key_num_ * coords_size
      ELSE /\ B[o + 1] = BufferOf("user", u, <<>>)
           /\ S[o + 1] = kvb.user_buffer_sizes_[u + 1]
           /\ kvb.names[j] = "a2" =>
                /\ B[o + 2] = BufferOf("user", u + 1, <<>>)
                /\ S[o + 2] = kvb.user_buffer_sizes_[u + 2]

\* C27: the underlying query of a KV write is an unordered write, that of a KV
\* read a global-order read; its buffers are, attribute by attribute in the
\* order of the attributes, the offsets and the values of the keys for __key,
\* the types for __key_type, a buffer of key_num * coords_size bytes for
\* __coords and the caller's next buffer (next two for a variable size) for
\* any other; in a write the last buffer is the coordinates buffer and holds
\* the digests of the keys in their order.
C27_UnderlyingBuffers ==
  kvb.phase = "inited" =>
    /\ kvb.layout = IF kvb.type_ = WRITE THEN "UNORDERED" ELSE "GLOBAL_ORDER"
    /\ Len(kvb.buffers_) = BuffersBefore(kvb.names, Len(kvb.names) + 1)
    /\ Len(kvb.buffer_sizes_) = Len(kvb.buffers_)
    /\ \A j \in 1..Len(kvb.names) : AttributeBuffers(j)
    /\ kvb.type_ = WRITE =>
         /\ kvb.buffers_[Len(kvb.buffers_)].owner = "coords"
         /\ kvb.buffers_[Len(kvb.buffers_)].data =
              [i \in 1..Len(kvAdded) |-> DigestOf(kvAdded[i])]
         /\ \A k \in 1..(Len(kvb.buffers_) - 1) :
              kvb.buffers_[k].owner # "coords"

\* A write of two keys with the caller's attributes a2 and a1: seven buffers.
C27_Witness ==
  /\ kvb.phase = "inited"
  /\ kvb.type_ = WRITE
  /\ kvb.attributes.names = <<"a2", "a1">>
  /\ Len(kvAdded) = 2
  /\ Len(kvb.buffers_) = 7
  /\ kvb.buffers_[3].owner = "user" /\ kvb.buffers_[3].i = 2
  /\ Len(kvb.buffers_[7].data) = 2

\* A write with a list of attributes of the caller's.
ExplicitWrite ==
  /\ kvb.phase = "inited"
  /\ kvb.type_ = WRITE
  /\ ~kvb.attributes.null
  /\ Len(kvb.attributes.names) > 0
ReservedThree == <<key_attr_name, key_type_attr_name, "__coords">>
Occurrences(names, name) == Cardinality({i \in 1..Len(names) : names[i] = name})

\* C28 as stated: the attributes of the underlying write of a KV write with an
\* explicit list are the three reserved attributes, each once, and after them
\* the caller's attributes.
C28_ReservedPrepended ==
  ExplicitWrite =>
    /\ Range(SubSeq(kvb.names, 1, 3)) = Range(ReservedThree)
    /\ SubSeq(kvb.names, 4, Len(kvb.names)) = kvb.attributes.names

\* C28, amended: the attributes of the underlying write are the caller's
\* attributes in their order and after them __key, __key_type and __coords in
\* this order; each of the three is there once when the caller names none of
\* them; the ids handed to the underlying query are those of these names.
C28_ReservedAppended ==
  ExplicitWrite =>
    /\ kvb.names = kvb.attributes.names \o ReservedThree
    /\ (\A i \in 1..Len(kvb.attributes.names) :
          ~reserved_name(kvb.attributes.names[i])) =>
         \A i \in 1..3 : Occurrences(kvb.names, ReservedThree[i]) = 1
    /\ Len(kvb.attribute_ids) = Len(kvb.names)
    /\ \A j \in 1..Len(kvb.names) :
         KV_attribute_name(kvb.attribute_ids[j]) = kvb.names[j]

\* A write with the caller's attributes a2 and a1 was initialized.
C28_Witness ==
  /\ ExplicitWrite
  /\ kvb.attributes.names = <<"a2", "a1">>
  /\ kvb.names = <<"a2", "a1", key_attr_name, key_type_attr_name, "__coords">>

\* The place in buffers_ of buffer u (from 0) of the caller.
UserBufferAt(u) ==
  CHOOSE k \in 1..Len(kvb.buffers_) :
    kvb.buffers_[k].owner = "user" /\ kvb.buffers_[k].i = u

\* C29: after reset_user_buffer_sizes every size of the caller is the size the
\* underlying query recorded for that buffer of the caller.
C29_UserSizesAreRecordedSizes ==
  kvb.phase = "reset" =>
    \A u \in 1..Len(kvb.user_buffer_sizes_) :
      kvb.user_buffer_sizes_[u] = kvb.buffer_sizes_[UserBufferAt(u - 1)]

\* C31: coords_buffer_i returns the number of buffers of the attributes that
\* precede the coordinates in the list of the query, one per attribute of a
\* fixed size and two per attribute of a variable size, and a QueryError
\* when the coordinates are not in the list, whatever the output held before.
C31_CoordsBufferIndex ==
  lastCoords.called =>
    LET ids == lastCoords.attribute_ids
        coordsId == Len(ArraySchema_attributes)
    IN  IF \E k \in 1..Len(ids) : ids[k] = coordsId
        THEN /\ lastCoords.st = Ok
             /\ lastCoords.coords_buffer_i =
                  buffer_num(SubSeq(ids, 1,
                    (CHOOSE k \in 1..Len(ids) : ids[k] = coordsId) - 1))
        ELSE lastCoords.st = QueryError

\* C32: successive write_to_file calls on one path append: when
\* write_to_file(p, A) and then write_to_file(p, B) both return Ok, the file
\* p holds A followed by B.
C32_SuccessiveWritesAppend ==
  [][(/\ lastOp.op = "write_to_file" /\ lastOp.st = Ok
      /\ lastOp'.op = "write_to_file" /\ lastOp'.st = Ok
      /\ lastOp'.path = lastOp.path)
       => fs'[lastOp.path].data = lastOp.buffer \o lastOp'.buffer]_vars

\* C33: read_from_file terminates: a call that has entered its loop returns,
\* with Ok or with an IOError, also when the file ends before offset + length.
C33_ReadTerminates == (rd.pc = "loop") ~> (rd.pc = "done")

\* C34: the callback of a query, when one is set, is invoked once in every
\* submission that succeeds, after the status has been set to COMPLETED or
\* OVERFLOWED, so that it never finds the status INPROGRESS; it is not
\* invoked in a submission that fails, nor when none is set.
C34_CallbackOnceAfterStatus ==
  cb.ran =>
    /\ INPROGRESS \notin Range(cb.seen)
    /\ IF cb.had /\ queries["q1"].status_ \in {COMPLETED, OVERFLOWED}
       THEN cb.seen = <<queries["q1"].status_>>
       ELSE cb.seen = <<>>
    /\ queries["q1"].status_ = FAILED <=> cb.st # Ok

\* The callback of a read that overflowed and has delivered cells.
C34_Witness ==
  /\ cb.ran
  /\ cb.had
  /\ cb.seen = <<OVERFLOWED>>
  /\ Len(hist["q1"].delivered) > 0

\* C35: a query retains no fragment whose creation or initialization failed:
\* after a write submission in which the init of the new fragment fails,
\* fragment_num() is 0, so that a later submission makes a new fragment and
\* the destructor has none to finalize.
C35_NoFragmentOfFailedInit ==
  \A i \in QIds :
    \A k \in 1..Len(queries[i].fragments_) : queries[i].fragments_[k].inited

\* C36: after every successful KVQuery::init, a second init on the same
\* object included, buffers_ holds the buffers of the attributes of that
\* init, one per attribute of a fixed and two per attribute of a variable
\* size, in the order of the attributes, and none of an earlier init.
C36_BuffersOfThisInit ==
  kvb.phase = "inited" =>
    /\ Len(kvb.buffers_) = BuffersBefore(kvb.names, Len(kvb.names) + 1)
    /\ Len(kvb.buffer_sizes_) = Len(kvb.buffers_)
    /\ \A j \in 1..Len(kvb.names) : AttributeBuffers(j)

\* C37: the destructor of a KVQuery frees the coordinates buffers the
\* KVQuery has allocated, each of them, and nothing else: no buffer of the
\* caller, none of the Keys object, nothing that is no buffer.
C37_DestructorFreesOwnBuffers ==
  kvLife.destroyed =>
    kvLife.freed = {k \in 1..Len(kvLife.buffers_) :
                      kvLife.buffers_[k].owner = "coords"}

\* C38: an add_key that returns an error leaves the Keys object as it was,
\* and the three streams always describe the same number of keys, key_num.
C38_FailedAddKeyChangesNothing ==
  /\ keysLast.called /\ keysLast.st # Ok => kvKeys = keysLast.before
  /\ Len(kvKeys.keys_) = kvKeys.key_num_
  /\ Len(kvKeys.types_) = kvKeys.key_num_

====
